---- MODULE Spec2Model ----
(***************************************************************************)
(* A model of the kaizen documentation tooling:                           *)
(*   plugins/doc-structure/scripts/classify_dirs.py                       *)
(*       find_md_dirs, classify_directory, estimate_doc_type,             *)
(*       aggregate_to_top_dirs                                            *)
(*   plugins/kaizen/skills/review/scripts/resolve_review_context.py       *)
(*       _parse_doc_structure_yaml, parse_doc_structure                   *)
(*                                                                         *)
(* A file or directory name is the sequence of its '.'-separated parts:   *)
(* "docs" is <<"docs">>, ".git" is <<"", "git">>, "a.md" is <<"a", "md">>. *)
(* A path is a sequence of names; the project root is the empty path.     *)
(***************************************************************************)
EXTENDS Integers, Sequences, FiniteSets, TLC

VARIABLES
    fs_dirs,      \* the real directories of the project tree (paths, root included)
    fs_files,     \* directory -> the names of the plain files directly inside it
    fs_links,     \* the symbolic links to directories: [at |-> path, to |-> real directory]
    walk_stack,   \* os.walk's stack of directories still to list
    walk_log,     \* the directories os.walk has yielded so far, in order
    results,      \* find_md_dirs' result list of <<relative path, md count>>
    scan_pc,      \* "walking" | "done"
    cls_dir,      \* classify_directory: the parts of dir_path
    cls_files,    \* classify_directory: the '*.md' files directly in the directory
    cls_result,   \* classify_directory: what it returned
    cls_pc,       \* "call" | "done"
    agg_in,       \* aggregate_to_top_dirs: classified_dirs
    agg_out,      \* aggregate_to_top_dirs: the classification it returned
    re_from,      \* the output entry fed back: [category, entry, strip]
    re_in,        \* the input of the second aggregation, made of that entry
    re_out,       \* what the second aggregation returned
    agg_pc,       \* "call" | "done" | "again"
    ps_exists,    \* parse_doc_structure: whether .doc_structure.yaml exists
    ps_lines,     \* the lines of the file
    ps_next,      \* the index of the next line to read
    ps_state,     \* the parser's result, its key order, current_category, current_doc_type, current_field
    ps_raised,    \* whether an exception was raised while parsing
    ps_return,    \* what parse_doc_structure returned
    ps_outcome,   \* "running" | "value" (it returned) | "exception" (it raised)
    ps_pc,        \* "call" | "parsing" | "returned"
    call_args,    \* the arguments of the function of the resolver being called
    call_result,  \* what the function returned
    call_pc       \* "call" | "done"

scanVars == <<fs_dirs, fs_files, fs_links, walk_stack, walk_log, results, scan_pc>>
clsVars == <<cls_dir, cls_files, cls_result, cls_pc>>

aggVars == <<agg_in, agg_out, re_from, re_in, re_out, agg_pc>>

parseVars == <<ps_exists, ps_lines, ps_next, ps_state, ps_raised, ps_return, ps_outcome, ps_pc>>

callVars == <<call_args, call_result, call_pc>>

vars == <<scanVars, clsVars, aggVars, parseVars, callVars>>

\* What the steps of one component leave alone: the other components.
scanOthers == <<clsVars, aggVars, parseVars, callVars>>
clsOthers == <<scanVars, aggVars, parseVars, callVars>>
aggOthers == <<scanVars, clsVars, parseVars, callVars>>
parseOthers == <<scanVars, clsVars, aggVars, callVars>>
callOthers == <<scanVars, clsVars, aggVars, parseVars>>

(***************************************************************************)
(* Bounds                                                                  *)
(***************************************************************************)
MaxDirs == 2      \* directories below the root
MaxDepth == 2     \* depth of the deepest directory
MaxLinks == 1     \* symbolic links in the tree
MaxFiles == 2     \* Markdown files in a classified directory
MaxInputs == 3    \* classified directories given to the aggregation
MaxLines == 4     \* lines of a manifest file

(***************************************************************************)
(* Names                                                                   *)
(***************************************************************************)
N_docs == <<"docs">>
N_guide == <<"guide">>
N_build == <<"build">>
N_cfg == <<"", "cfg">>
N_self == <<"self">>

F_a_md == <<"a", "md">>
F_dot_md == <<"", "md">>
F_notes_txt == <<"notes", "txt">>
F_md_bak == <<"old", "md", "bak">>
F_package_json == <<"package", "json">>

\* classify_dirs.py SKIP_DIRS
SKIP_DIRS ==
    { <<"", "git">>, <<"", "claude">>, <<"", "github">>, <<"", "vscode">>, <<"", "idea">>,
      <<"node_modules">>, <<"__pycache__">>, <<"", "tox">>, <<"", "mypy_cache">>,
      <<"venv">>, <<"", "venv">>, <<"env">>, <<"", "env">>,
      <<"dist">>, <<"build">>, <<"target">>, <<"out">>,
      <<"", "next">>, <<"", "nuxt">>, <<"", "svelte-kit">>,
      <<"vendor">>, <<"Pods">>, <<"", "gradle">> }

\* classify_dirs.py SKIP_INDICATORS
SKIP_INDICATORS ==
    { <<"package", "json">>, <<"Cargo", "toml">>, <<"go", "mod">>, <<"pom", "xml">>,
      <<"setup", "py">>, <<"pyproject", "toml">> }

\* d.startswith('.')
StartsWithDot(n) == Len(n) >= 2 /\ n[1] = ""

\* f.endswith('.md')
EndsWithMd(n) == Len(n) >= 2 /\ n[Len(n)] = "md"

(***************************************************************************)
(* The project trees the scanner is run on                                 *)
(***************************************************************************)
DirNames == {N_docs, N_guide, N_build, N_cfg}

\* The order in which a directory's entries are listed.
ListingOrder == <<N_docs, N_guide, N_build, N_cfg, N_self>>

FileSets ==
    { {},
      {F_a_md, F_dot_md, F_notes_txt, F_md_bak},
      {F_a_md, F_package_json} }

RECURSIVE PathOf(_, _)
PathOf(f, i) == IF i = 0 THEN <<>> ELSE Append(PathOf(f, f[i][1]), f[i][2])

\* The trees of at most MaxDirs directories, none deeper than MaxDepth.
Trees ==
    UNION { { {<<>>} \cup { PathOf(f, i) : i \in 1..n } :
                f \in { g \in [1..n -> (0..(n - 1)) \X DirNames] :
                          /\ \A i \in 1..n : g[i][1] < i
                          /\ \A i \in 1..n : Len(PathOf(g, i)) <= MaxDepth
                          /\ \A i, j \in 1..n : i # j => PathOf(g, i) # PathOf(g, j) } }
            : n \in 0..MaxDirs }

IsPrefix(p, q) == Len(p) <= Len(q) /\ SubSeq(q, 1, Len(p)) = p
IsProperAncestor(p, q) == Len(p) < Len(q) /\ IsPrefix(p, q)

\* A link lies in a directory and points to that directory or to an ancestor of it.
LinkCandidates(dirs) ==
    { [at |-> Append(d, N_self), to |-> t] : d \in dirs, t \in dirs }

LinksOf(dirs) ==
    { L \in SUBSET { l \in LinkCandidates(dirs) : IsPrefix(l.to, SubSeq(l.at, 1, Len(l.at) - 1)) } :
        Cardinality(L) <= MaxLinks }

IsLink(p) == \E l \in fs_links : l.at = p

LinkTarget(p) == (CHOOSE l \in fs_links : l.at = p).to

\* The real directory a path leads to, symbolic links followed (os.path.realpath).
RECURSIVE Real(_)
Real(p) ==
    IF p = <<>> THEN <<>>
    ELSE LET parent == Real(SubSeq(p, 1, Len(p) - 1))
             q == Append(parent, p[Len(p)])
         IN IF IsLink(q) THEN LinkTarget(q) ELSE q

\* (current / name).exists()
Exists(p, n) ==
    LET d == Real(p)
    IN \/ n \in fs_files[d]
       \/ Append(d, n) \in fs_dirs
       \/ IsLink(Append(d, n))

(***************************************************************************)
(* os.walk(root, followlinks=False) and the loop body of find_md_dirs      *)
(***************************************************************************)
FollowLinksMutant == TRUE
FollowLinks == FALSE

\* dirnames: the entries of the directory that are directories, links to
\* directories included (os.scandir's is_dir() follows links).
DirNamesOf(p) ==
    LET d == Real(p)
    IN SelectSeq(ListingOrder,
                 LAMBDA n : Append(d, n) \in fs_dirs \/ IsLink(Append(d, n)))

\* dirnames[:] = [d for d in dirnames if d not in SKIP_DIRS and not d.startswith('.')]
Kept(names) == SelectSeq(names, LAMBDA n : n \notin SKIP_DIRS /\ ~StartsWithDot(n))

\* md_files = [f for f in filenames if f.endswith('.md')]
MdFilesAll(p) == fs_files[Real(p)]
MdFiles(p) == { f \in fs_files[Real(p)] : EndsWithMd(f) }

\* any((current / ind).exists() for ind in SKIP_INDICATORS)
HasIndicator(p) == \E ind \in SKIP_INDICATORS : Exists(p, ind)

\* Whether the loop body appends the directory to the results.
Reported(p) == p # <<>> /\ ~HasIndicator(p) /\ MdFiles(p) # {}

RECURSIVE Reverse(_)
Reverse(s) == IF s = <<>> THEN <<>> ELSE Append(Reverse(Tail(s)), Head(s))

\* The directories os.walk pushes after the loop body has run: the kept names,
\* in reverse, links left out unless followlinks is set.
Pushed(p) ==
    LET kept == Kept(DirNamesOf(p))
        paths == [i \in 1..Len(kept) |-> Append(p, kept[i])]
    IN Reverse(SelectSeq(paths, LAMBDA q : FollowLinks \/ ~IsLink(Real(SubSeq(q, 1, Len(q) - 1)) \o <<q[Len(q)]>>)))

ScanInit ==
    /\ fs_dirs \in Trees
    /\ fs_files \in [fs_dirs -> FileSets]
    /\ fs_links \in LinksOf(fs_dirs)
    /\ walk_stack = << <<>> >>
    /\ walk_log = <<>>
    /\ results = <<>>
    /\ scan_pc = "walking"

\* One iteration of `for dirpath, dirnames, filenames in os.walk(...)`.
WalkStep ==
    /\ scan_pc = "walking"
    /\ walk_stack # <<>>
    /\ LET top == walk_stack[Len(walk_stack)]
           rest == SubSeq(walk_stack, 1, Len(walk_stack) - 1)
       IN /\ walk_log' = Append(walk_log, top)
          /\ results' = IF Reported(top)
                        THEN Append(results, <<top, Cardinality(MdFiles(top))>>)
                        ELSE results
          /\ walk_stack' = rest \o Pushed(top)
    /\ UNCHANGED <<fs_dirs, fs_files, fs_links, scan_pc, scanOthers>>

\* return results
ScanReturn ==
    /\ scan_pc = "walking"
    /\ walk_stack = <<>>
    /\ scan_pc' = "done"
    /\ UNCHANGED <<fs_dirs, fs_files, fs_links, walk_stack, walk_log, results, scanOthers>>

(***************************************************************************)
(* classify_directory and its three strategies                             *)
(*                                                                         *)
(* A Markdown file is [fm, text]: fm is what extract_front_matter returns  *)
(* for it (None, or the dict of its keys), text is the body after the      *)
(* front matter as the sequence of its words, single spaces between them.  *)
(***************************************************************************)
None == <<>>

\* str.lower() on the strings of the model.
Lower(s) ==
    CASE s = "Rules" -> "rules"
      [] s = "Rule" -> "rule"
      [] s = "Design" -> "design"
      [] s = "Designs" -> "designs"
      [] s = "Must" -> "must"
      [] OTHER -> s

NoFrontMatter == [present |-> FALSE]
FrontMatter(d) == [present |-> TRUE, dict |-> d]

\* `not fm or 'doc_type' not in fm` is false
DeclaresDocType(f) == f.fm.present /\ "doc_type" \in DOMAIN f.fm.dict

FM_RULE_TYPES == {"rule", "rules", "guideline", "standard", "workflow"}
FM_SPEC_TYPES == {"requirement", "requirements", "design", "plan",
                  "specification", "spec", "specs"}

CountFiles(files, P(_)) == Cardinality({ i \in 1..Len(files) : P(files[i]) })

IsRulesFile(f) == DeclaresDocType(f) /\ Lower(f.fm.dict.doc_type) \in FM_RULE_TYPES
IsSpecsFile(f) ==
    /\ DeclaresDocType(f)
    /\ Lower(f.fm.dict.doc_type) \notin FM_RULE_TYPES
    /\ Lower(f.fm.dict.doc_type) \in FM_SPEC_TYPES

FrontmatterConfidenceAlwaysHigh(count, total_with_fm) == "high"

\* confidence = 'high' if rules_count == total_with_fm else 'medium'
FrontmatterConfidence(count, total_with_fm) ==
    IF count = total_with_fm THEN "high" ELSE "medium"

classify_by_frontmatter_tie_is_rules(files) ==
    LET rules_count == CountFiles(files, IsRulesFile)
        specs_count == CountFiles(files, IsSpecsFile)
        total_with_fm == CountFiles(files, DeclaresDocType)
    IN IF files = <<>> THEN None
       ELSE IF total_with_fm = 0 THEN None
       ELSE IF rules_count + specs_count = 0 THEN None
       ELSE IF rules_count >= specs_count
            THEN <<"rules", FrontmatterConfidence(rules_count, total_with_fm),
                   <<"frontmatter doc_type=rule", rules_count, total_with_fm>> >>
       ELSE <<"specs", FrontmatterConfidence(specs_count, total_with_fm),
              <<"frontmatter doc_type=spec", specs_count, total_with_fm>> >>

classify_by_frontmatter(files) ==
    LET rules_count == CountFiles(files, IsRulesFile)
        specs_count == CountFiles(files, IsSpecsFile)
        total_with_fm == CountFiles(files, DeclaresDocType)
    IN IF files = <<>> THEN None
       ELSE IF total_with_fm = 0 THEN None
       ELSE IF rules_count + specs_count = 0 THEN None
       ELSE IF rules_count > specs_count
            THEN <<"rules", FrontmatterConfidence(rules_count, total_with_fm),
                   <<"frontmatter doc_type=rule", rules_count, total_with_fm>> >>
       ELSE IF specs_count > rules_count
            THEN <<"specs", FrontmatterConfidence(specs_count, total_with_fm),
                   <<"frontmatter doc_type=spec", specs_count, total_with_fm>> >>
       ELSE None

DIRNAME_RULE_NAMES == {"rules", "rule", "guidelines", "standards", "policies", "conventions"}
DIRNAME_SPEC_NAMES == {"specs", "spec", "specifications", "requirements", "design",
                       "designs", "plans", "features", "proposals"}

MinOf(S) == CHOOSE x \in S : \A y \in S : x <= y
MaxOf(S) == CHOOSE x \in S : \A y \in S : x >= y

classify_by_dirname(parts) ==
    LET hits == { i \in 1..Len(parts) :
                    Lower(parts[i]) \in DIRNAME_RULE_NAMES \cup DIRNAME_SPEC_NAMES }
    IN IF hits = {} THEN None
       ELSE LET part_lower == Lower(parts[MinOf(hits)])
            IN IF part_lower \in DIRNAME_RULE_NAMES
               THEN <<"rules", "medium", <<"dirname match", part_lower>> >>
               ELSE <<"specs", "medium", <<"dirname match", part_lower>> >>

\* RULE_TERMS and SPEC_TERMS, each term the sequence of its words.
RULE_TERMS ==
    { <<"must">>, <<"shall">>, <<"should", "not">>, <<"must", "not">>,
      <<"convention">>, <<"standard">>, <<"guideline">>,
      <<"prohibited">>, <<"naming">>, <<"workflow">>,
      <<"rule">>, <<"policy">>, <<"do", "not">>, <<"forbidden">>,
      <<"compliance">>, <<"best", "practice">> }

SPEC_TERMS ==
    { <<"requirement">>, <<"design">>, <<"feature">>,
      <<"specification">>, <<"architecture">>, <<"component">>,
      <<"use", "case">>, <<"acceptance", "criteria">>, <<"user", "story">>,
      <<"functional">>, <<"non-functional">>, <<"interface">>,
      <<"api">>, <<"schema">>, <<"data", "model">>,
      <<"sequence">>, <<"state">>, <<"plan">> }

\* len(re.findall(pattern, content)) for the pattern of one term
Matches(term, words) ==
    Cardinality({ i \in 1..(Len(words) - Len(term) + 1) :
                    SubSeq(words, i, i + Len(term) - 1) = term })

\* The matches of every term of a list, summed.
RECURSIVE TermScore(_, _)
TermScore(terms, words) ==
    IF terms = {} THEN 0
    ELSE LET t == CHOOSE x \in terms : TRUE
         IN Matches(t, words) + TermScore(terms \ {t}, words)

\* The words of a front-matter block, its markers and colons included.
RECURSIVE DictWords(_, _)
DictWords(d, keys) ==
    IF keys = {} THEN <<>>
    ELSE LET k == CHOOSE x \in keys : TRUE
         IN <<k, ":", d[k]>> \o DictWords(d, keys \ {k})

\* f.read(): the whole file, front matter first.
FileWords(f) ==
    IF f.fm.present
    THEN <<"---">> \o DictWords(f.fm.dict, DOMAIN f.fm.dict) \o <<"---">> \o f.text
    ELSE f.text

\* score_file_terms: (rule_score, spec_score) of the lower-cased content
score_file_terms(f) ==
    LET content == [i \in 1..Len(FileWords(f)) |-> Lower(FileWords(f)[i])]
        rule_score == TermScore(RULE_TERMS, content)
        spec_score == TermScore(SPEC_TERMS, content)
    IN <<rule_score, spec_score>>

RECURSIVE SumScores(_, _)
SumScores(files, k) ==
    IF files = <<>> THEN 0
    ELSE score_file_terms(Head(files))[k] + SumScores(Tail(files), k)

\* ratio = max(total_rule, total_spec) / total, compared with 0.6 and 0.75
classify_by_terms_boundary_excluded(files) ==
    LET total_rule == SumScores(files, 1)
        total_spec == SumScores(files, 2)
        total == total_rule + total_spec
        top == IF total_rule >= total_spec THEN total_rule ELSE total_spec
        confidence == IF 4 * top >= 3 * total THEN "high" ELSE "medium"
    IN IF files = <<>> THEN None
       ELSE IF total = 0 THEN None
       ELSE IF 5 * top <= 3 * total THEN None
       ELSE IF total_rule > total_spec
            THEN <<"rules", confidence, <<"term_ranking", total_rule, total_spec>> >>
            ELSE <<"specs", confidence, <<"term_ranking", total_rule, total_spec>> >>

classify_by_terms(files) ==
    LET total_rule == SumScores(files, 1)
        total_spec == SumScores(files, 2)
        total == total_rule + total_spec
        top == IF total_rule >= total_spec THEN total_rule ELSE total_spec
        confidence == IF 4 * top >= 3 * total THEN "high" ELSE "medium"
    IN IF files = <<>> THEN None
       ELSE IF total = 0 THEN None
       ELSE IF 5 * top < 3 * total THEN None
       ELSE IF total_rule > total_spec
            THEN <<"rules", confidence, <<"term_ranking", total_rule, total_spec>> >>
            ELSE <<"specs", confidence, <<"term_ranking", total_rule, total_spec>> >>

\* `if result:` on a tuple or None
Truthy(result) == result # None

classify_directory_dirname_first(parts, files) ==
    IF Truthy(classify_by_dirname(parts)) THEN classify_by_dirname(parts)
    ELSE IF Truthy(classify_by_frontmatter(files)) THEN classify_by_frontmatter(files)
    ELSE IF Truthy(classify_by_terms(files)) THEN classify_by_terms(files)
    ELSE None

classify_directory(parts, files) ==
    IF Truthy(classify_by_frontmatter(files)) THEN classify_by_frontmatter(files)
    ELSE IF Truthy(classify_by_dirname(parts)) THEN classify_by_dirname(parts)
    ELSE IF Truthy(classify_by_terms(files)) THEN classify_by_terms(files)
    ELSE None

\* The directories classify_directory is called on.
ClsPaths == { <<"docs">>, <<"docs", "Design">>, <<"specs", "rules">>, <<"Rules">>, <<"notes", "api">> }

FrontMatters ==
    { NoFrontMatter,
      FrontMatter([title |-> "x"]),
      FrontMatter([doc_type |-> "Rule"]),
      FrontMatter([doc_type |-> "design"]),
      FrontMatter([doc_type |-> "guide"]) }

Texts ==
    { <<"hello">>,
      <<"Must", "not", "policy", "api">>,
      <<"must", "shall", "rule", "api", "schema">>,
      <<"design", "plan", "state", "must">>,
      <<"use", "case", "naming">> }

MdFileContents == [fm : FrontMatters, text : Texts]

SeqsUpTo(S, n) == UNION { [1..k -> S] : k \in 0..n }

ClsInit ==
    /\ cls_dir \in ClsPaths
    /\ cls_files \in SeqsUpTo(MdFileContents, MaxFiles)
    /\ cls_result = None
    /\ cls_pc = "call"

\* result = classify_directory(project_root, dir_path)
ClassifyDirectory ==
    /\ cls_pc = "call"
    /\ cls_result' = classify_directory(cls_dir, cls_files)
    /\ cls_pc' = "done"
    /\ UNCHANGED <<cls_dir, cls_files, clsOthers>>

(***************************************************************************)
(* estimate_doc_type and aggregate_to_top_dirs                             *)
(*                                                                         *)
(* A path string is the sequence of its '/'-separated pieces: 'docs/a' is  *)
(* <<"docs", "a">>, 'docs/' is <<"docs", "">>, 'docs//' is                 *)
(* <<"docs", "", "">>.                                                     *)
(***************************************************************************)
\* Path(dir_path).parts of a relative path
PathParts(s) == SelectSeq(s, LAMBDA x : x # "" /\ x # ".")

\* f"{dir}/"
WithSlash(s) == Append(s, "")

DOC_TYPE_NAMES ==
    [n \in { "requirements", "requirement", "req", "reqs", "designs", "design", "des",
             "plans", "plan", "rules", "rule", "workflows", "workflow",
             "guides", "guide", "references", "reference", "ref", "api", "apis",
             "specs", "spec", "specifications", "standards", "conventions",
             "policies", "guidelines" } |->
        CASE n \in {"requirements", "requirement", "req", "reqs"} -> "requirement"
          [] n \in {"designs", "design", "des"} -> "design"
          [] n \in {"plans", "plan"} -> "plan"
          [] n \in {"rules", "rule"} -> "rule"
          [] n \in {"workflows", "workflow"} -> "workflow"
          [] n \in {"guides", "guide"} -> "guide"
          [] n \in {"references", "reference", "ref"} -> "reference"
          [] n \in {"api", "apis"} -> "api"
          [] n \in {"specs", "spec", "specifications"} -> "spec"
          [] n \in {"standards", "conventions", "policies"} -> "rule"
          [] n = "guidelines" -> "guide"]

estimate_doc_type(dir_path, category) ==
    LET parts == PathParts(dir_path)
        hits == { i \in 1..Len(parts) : Lower(parts[i]) \in DOMAIN DOC_TYPE_NAMES }
    IN IF hits # {} THEN DOC_TYPE_NAMES[Lower(parts[MaxOf(hits)])]
       ELSE IF category = "rules" THEN "rule" ELSE "spec"

\* _CONFIDENCE_ORDER.get(c, 0)
ConfidenceOrderOfStrings(c) ==
    CASE c = "high" -> 0 [] c = "low" -> 1 [] c = "medium" -> 2 [] OTHER -> 0
ConfidenceOrder(c) ==
    CASE c = "low" -> 0 [] c = "medium" -> 1 [] c = "high" -> 2 [] OTHER -> 0

BestConfidenceFirst(confidences) == confidences[1]
\* max(confidences, key=...): the first element whose key is the greatest
BestConfidence(confidences) ==
    LET top == MaxOf({ ConfidenceOrder(confidences[i]) : i \in 1..Len(confidences) })
    IN confidences[MinOf({ i \in 1..Len(confidences) : ConfidenceOrder(confidences[i]) = top })]

\* Phase 1: an input tuple (dir_path, category, confidence, reason), enriched
Enrich(t) ==
    LET parts == PathParts(t[1])
    IN [dir |-> t[1], category |-> t[2], confidence |-> t[3], reason |-> t[4],
        doc_type |-> estimate_doc_type(t[1], t[2]),
        top_dir |-> IF parts # <<>> THEN <<parts[1]>> ELSE t[1]]

Enriched(classified_dirs) == [i \in 1..Len(classified_dirs) |-> Enrich(classified_dirs[i])]

\* Phase 2: the group keys in the order the dict first sees them
GroupKey(e) == <<e.category, e.top_dir, e.doc_type>>

RECURSIVE GroupKeys(_)
GroupKeys(enriched) ==
    IF enriched = <<>> THEN <<>>
    ELSE LET front == SubSeq(enriched, 1, Len(enriched) - 1)
             last == GroupKey(enriched[Len(enriched)])
             keys == GroupKeys(front)
         IN IF \E i \in 1..Len(keys) : keys[i] = last THEN keys ELSE Append(keys, last)

GroupEntriesFirstOnly(enriched, key) ==
    LET all == SelectSeq(enriched, LAMBDA e : GroupKey(e) = key) IN << all[1] >>
GroupEntries(enriched, key) == SelectSeq(enriched, LAMBDA e : GroupKey(e) = key)

\* Phase 3: the categories seen under a top-level directory
TopDirCategoriesUnseen(enriched, top_dir) == {}
TopDirCategories(enriched, top_dir) ==
    { enriched[i].category : i \in { j \in 1..Len(enriched) : enriched[j].top_dir = top_dir } }

\* Phase 4: what one group appends to result[category]
GroupOutputCollapsed(key, entries, is_mixed) ==
    << [dir |-> WithSlash(key[2]),
        confidence |-> BestConfidence([i \in 1..Len(entries) |-> entries[i].confidence]),
        reason |-> <<"aggregated from", Len(entries), entries[1].reason>>,
        doc_type |-> key[3]] >>
GroupOutput(key, entries, is_mixed) ==
    IF is_mixed
    THEN [i \in 1..Len(entries) |->
            [dir |-> WithSlash(entries[i].dir), confidence |-> entries[i].confidence,
             reason |-> <<entries[i].reason>>, doc_type |-> key[3]]]
    ELSE IF Len(entries) > 1 \/ entries[1].dir = key[2]
    THEN << [dir |-> WithSlash(key[2]),
             confidence |-> BestConfidence([i \in 1..Len(entries) |-> entries[i].confidence]),
             reason |-> <<"aggregated from", Len(entries), entries[1].reason>>,
             doc_type |-> key[3]] >>
    ELSE << [dir |-> WithSlash(entries[1].dir), confidence |-> entries[1].confidence,
             reason |-> <<entries[1].reason>>, doc_type |-> key[3]] >>

RECURSIVE CategoryOutput(_, _, _)
CategoryOutput(enriched, keys, category) ==
    IF keys = <<>> THEN <<>>
    ELSE LET key == Head(keys)
             is_mixed == Cardinality(TopDirCategories(enriched, key[2])) > 1
             here == IF key[1] = category
                     THEN GroupOutput(key, GroupEntries(enriched, key), is_mixed)
                     ELSE <<>>
         IN here \o CategoryOutput(enriched, Tail(keys), category)

aggregate_to_top_dirs(classified_dirs) ==
    LET enriched == Enriched(classified_dirs)
        keys == GroupKeys(enriched)
    IN [rules |-> CategoryOutput(enriched, keys, "rules"),
        specs |-> CategoryOutput(enriched, keys, "specs"),
        skip |-> <<>>,
        mixed |-> <<>>]

\* The classified directories aggregate_to_top_dirs is called on: distinct
\* directories, each with a category, a confidence and a reason.
AggPaths ==
    { <<"docs">>, <<"docs", "a">>, <<"docs", "design">>, <<"docs", "Designs">>,
      <<"rules", "coding">> }

Categories == {"rules", "specs"}

ConfidenceReasons ==
    { <<"high", "frontmatter">>, <<"medium", "dirname">>, <<"low", "test">> }

ClassifiedDirs ==
    { s \in SeqsUpTo(AggPaths \X Categories \X ConfidenceReasons, MaxInputs) :
        \A i, j \in 1..Len(s) : i # j => s[i][1] # s[j][1] }

AggInit ==
    /\ \E s \in ClassifiedDirs :
          agg_in = [i \in 1..Len(s) |-> <<s[i][1], s[i][2], s[i][3][1], s[i][3][2]>>]
    /\ agg_out = None
    /\ re_from = None
    /\ re_in = None
    /\ re_out = None
    /\ agg_pc = "call"

\* classification = aggregate_to_top_dirs(classified)
Aggregate ==
    /\ agg_pc = "call"
    /\ agg_out' = aggregate_to_top_dirs(agg_in)
    /\ agg_pc' = "done"
    /\ UNCHANGED <<agg_in, re_from, re_in, re_out, aggOthers>>

\* str.rstrip('/')
RStripSlash(s) ==
    IF \A i \in 1..Len(s) : s[i] = "" THEN <<>>
    ELSE SubSeq(s, 1, MaxOf({ i \in 1..Len(s) : s[i] # "" }))

\* An entry of the output is fed back to aggregate_to_top_dirs on its own, with
\* its path as the output shows it or with the trailing '/' taken off.
Reaggregate ==
    /\ agg_pc = "done"
    /\ \E category \in Categories :
         \E i \in 1..Len(agg_out[category]) :
           \E strip \in BOOLEAN :
             LET e == agg_out[category][i]
                 path == IF strip THEN RStripSlash(e.dir) ELSE e.dir
             IN /\ re_from' = [category |-> category, entry |-> e, strip |-> strip]
                /\ re_in' = << <<path, category, e.confidence, e.reason>> >>
                /\ re_out' = aggregate_to_top_dirs(re_in')
    /\ agg_pc' = "again"
    /\ UNCHANGED <<agg_in, agg_out, aggOthers>>

(***************************************************************************)
(* _parse_doc_structure_yaml and parse_doc_structure                       *)
(*                                                                         *)
(* A line of the manifest is [indent, kind, key, val]: its leading spaces  *)
(* and its stripped content, which is blank, a '#' comment, a 'key: val'   *)
(* line, a '- val' list item or plain text.  A value is a scalar (a text   *)
(* within quotes q, both empty for no value) or a flow array of scalars.   *)
(* A dict is a function on the set of its keys.                            *)
(***************************************************************************)
Scalar(q, s) == [flow |-> FALSE, q |-> q, s |-> s, items |-> <<>>]
Flow(items) == [flow |-> TRUE, q |-> "", s |-> "", items |-> items]
NoValue == Scalar("", "")

KeyLine(indent, key, val) == [indent |-> indent, kind |-> "kv", key |-> key, val |-> val]
ItemLine(indent, val) == [indent |-> indent, kind |-> "item", key |-> "", val |-> val]
CommentLine(indent) == [indent |-> indent, kind |-> "comment", key |-> "", val |-> NoValue]
BlankLine == [indent |-> 0, kind |-> "blank", key |-> "", val |-> NoValue]

\* not stripped or stripped.lstrip().startswith('#')
Ignored(line) == line.kind \in {"blank", "comment"}

\* ':' in content
HasColon(line) == line.kind = "kv"

\* content.startswith('- ')
IsItem(line) == line.kind = "item"

\* val.strip('"\'')
StripQuotes(v) == v.s

\* _parse_flow_array
parse_flow_array(v) == [i \in 1..Len(v.items) |-> StripQuotes(v.items[i])]

EmptyDict == <<>>
Put(d, k, v) == [x \in DOMAIN d \cup {k} |-> IF x = k THEN v ELSE d[x]]
SetDefault(d, k, v) == IF k \in DOMAIN d THEN d ELSE Put(d, k, v)

\* d.get(k) is truthy, for a string value
GetTruthy(d, k) == k \in DOMAIN d /\ d[k] # ""

PyNone == "None"

\* result[current_category][current_doc_type][field] = value
PutField(result, category, doc_type, field, value) ==
    Put(result, category,
        Put(result[category], doc_type, Put(result[category][doc_type], field, value)))

\* result[current_category][current_doc_type].setdefault('paths', []).append(path_val)
AppendPath(result, category, doc_type, path_val) ==
    LET info == result[category][doc_type]
        paths == IF "paths" \in DOMAIN info THEN info["paths"] ELSE <<>>
    IN PutField(result, category, doc_type, "paths", Append(paths, path_val))

\* A dict keeps its keys in insertion order: order lists <<category, doc type>>
\* in the order result[category] got its keys.
Inserted(order, d, category, k) ==
    IF k \in DOMAIN d THEN order ELSE Append(order, <<category, k>>)

\* The body of `for line in f` for one line: the parser's state after it.
ParseLineState(st, line) ==
    IF Ignored(line) THEN st
    ELSE IF line.indent = 0 /\ HasColon(line)
    THEN IF line.key = "version"
         THEN [st EXCEPT !.result = Put(st.result, "version", StripQuotes(line.val))]
         ELSE IF line.key \in {"specs", "rules"}
         THEN [st EXCEPT !.result = SetDefault(st.result, line.key, EmptyDict),
                         !.category = line.key,
                         !.doc_type = PyNone,
                         !.field = PyNone]
         ELSE st
    ELSE IF line.indent = 2 /\ st.category # PyNone /\ HasColon(line)
    THEN [st EXCEPT !.result = Put(st.result, st.category,
                                   SetDefault(st.result[st.category], line.key, EmptyDict)),
                    !.order = Inserted(st.order, st.result[st.category], st.category, line.key),
                    !.doc_type = line.key,
                    !.field = PyNone]
    ELSE IF line.indent = 4 /\ st.category # PyNone /\ st.doc_type # PyNone
    THEN IF HasColon(line) /\ ~IsItem(line)
         THEN IF line.key = "paths"
              THEN IF line.val.flow
                   THEN [st EXCEPT !.result = PutField(st.result, st.category, st.doc_type,
                                                       "paths", parse_flow_array(line.val)),
                                   !.field = PyNone]
                   ELSE [st EXCEPT !.result = PutField(st.result, st.category, st.doc_type,
                                                       "paths", <<>>),
                                   !.field = line.key]
              ELSE IF line.key = "description"
              THEN [st EXCEPT !.result = PutField(st.result, st.category, st.doc_type,
                                                  "description", StripQuotes(line.val)),
                              !.field = line.key]
              ELSE [st EXCEPT !.field = line.key]
         ELSE IF IsItem(line) /\ st.field = "paths"
         THEN [st EXCEPT !.result = AppendPath(st.result, st.category, st.doc_type,
                                               StripQuotes(line.val))]
         ELSE st
    ELSE IF line.indent = 6 /\ st.field = "paths" /\ IsItem(line)
    THEN [st EXCEPT !.result = AppendPath(st.result, st.category, st.doc_type,
                                          StripQuotes(line.val))]
    ELSE st

\* return result if result.get('version') else None
ReturnedAnyway(result) == [is_none |-> FALSE, value |-> result]
Returned(result) ==
    IF GetTruthy(result, "version")
    THEN [is_none |-> FALSE, value |-> result]
    ELSE [is_none |-> TRUE]

ReturnedNone == [is_none |-> TRUE]

\* The lines a manifest is made of.
ManifestLines ==
    { KeyLine(0, "version", Scalar("\"", "1.0")),
      KeyLine(0, "version", NoValue),
      KeyLine(0, "specs", NoValue),
      KeyLine(0, "rules", NoValue),
      KeyLine(0, "meta", NoValue),
      KeyLine(2, "design", NoValue),
      KeyLine(2, "version", Scalar("", "2")),
      KeyLine(4, "paths", Flow(<<Scalar("", "docs/design/"), Scalar("'", "docs/x/")>>)),
      KeyLine(4, "paths", NoValue),
      KeyLine(4, "description", Scalar("\"", "Design documents")),
      ItemLine(6, Scalar("", "docs/a/")),
      CommentLine(2) }

ParseInit ==
    /\ ps_exists \in BOOLEAN
    /\ ps_lines \in (IF ps_exists THEN SeqsUpTo(ManifestLines, MaxLines) ELSE {<<>>})
    /\ ps_next = 1
    /\ ps_state = [result |-> EmptyDict, order |-> <<>>, category |-> PyNone,
                   doc_type |-> PyNone, field |-> PyNone]
    /\ ps_raised = FALSE
    /\ ps_return = ReturnedNone
    /\ ps_outcome = "running"
    /\ ps_pc = "call"

\* parse_doc_structure: `if not filepath.exists(): return None`, else the call
\* of _parse_doc_structure_yaml inside `try`.
ParseCall ==
    /\ ps_pc = "call"
    /\ IF ps_exists
       THEN /\ ps_pc' = "parsing"
            /\ UNCHANGED <<ps_return, ps_outcome>>
       ELSE /\ ps_pc' = "returned"
            /\ ps_return' = ReturnedNone
            /\ ps_outcome' = "value"
    /\ UNCHANGED <<ps_exists, ps_lines, ps_next, ps_state, ps_raised, parseOthers>>

\* One iteration of `for line in f`.
ParseLine ==
    /\ ps_pc = "parsing"
    /\ ps_next <= Len(ps_lines)
    /\ ps_state' = ParseLineState(ps_state, ps_lines[ps_next])
    /\ ps_next' = ps_next + 1
    /\ UNCHANGED <<ps_exists, ps_lines, ps_raised, ps_return, ps_outcome, ps_pc, parseOthers>>

\* The end of the file: _parse_doc_structure_yaml returns, and parse_doc_structure
\* returns what it returned.
ParseReturn ==
    /\ ps_pc = "parsing"
    /\ ps_next > Len(ps_lines)
    /\ ps_return' = Returned(ps_state.result)
    /\ ps_outcome' = "value"
    /\ ps_pc' = "returned"
    /\ UNCHANGED <<ps_exists, ps_lines, ps_next, ps_state, ps_raised, parseOthers>>

\* What parse_doc_structure does with an exception raised inside `try`:
\* `except Exception: return None`.
Handler == "value"

\* open() or the reading of a line raises (the file is unreadable, is a
\* directory, or is not UTF-8).
ParseRaise ==
    /\ ps_pc = "parsing"
    /\ ps_raised' = TRUE
    /\ ps_return' = ReturnedNone
    /\ ps_outcome' = Handler
    /\ ps_pc' = "returned"
    /\ UNCHANGED <<ps_exists, ps_lines, ps_next, ps_state, parseOthers>>

\* The state of the components a specification leaves idle.
ScanIdle ==
    /\ fs_dirs = {<<>>}
    /\ fs_files = [d \in {<<>>} |-> {}]
    /\ fs_links = {}
    /\ walk_stack = <<>>
    /\ walk_log = <<>>
    /\ results = <<>>
    /\ scan_pc = "idle"

ClsIdle ==
    /\ cls_dir = <<>>
    /\ cls_files = <<>>
    /\ cls_result = <<>>
    /\ cls_pc = "idle"

AggIdle ==
    /\ agg_in = <<>>
    /\ agg_out = <<>>
    /\ re_from = <<>>
    /\ re_in = <<>>
    /\ re_out = <<>>
    /\ agg_pc = "idle"

ParseIdle ==
    /\ ps_exists = FALSE
    /\ ps_lines = <<>>
    /\ ps_next = 1
    /\ ps_state = <<>>
    /\ ps_raised = FALSE
    /\ ps_return = <<>>
    /\ ps_outcome = "idle"
    /\ ps_pc = "idle"

CallIdle ==
    /\ call_args = <<>>
    /\ call_result = <<>>
    /\ call_pc = "idle"

Init == ScanInit /\ ClsIdle /\ AggIdle /\ ParseIdle /\ CallIdle

Next == WalkStep \/ ScanReturn

Spec == Init /\ [][Next]_vars

ClsSpecInit == ScanIdle /\ ClsInit /\ AggIdle /\ ParseIdle /\ CallIdle

ClsNext == ClassifyDirectory

ClsSpec == ClsSpecInit /\ [][ClsNext]_vars

\* aggregate_to_top_dirs is called again on the same classified directories,
\* listed in another order.
AggregatePermuted ==
    /\ agg_pc = "done"
    /\ \E p \in Permutations(1..Len(agg_in)) :
          LET permuted == [i \in 1..Len(agg_in) |-> agg_in[p[i]]]
          IN /\ re_in' = permuted
             /\ re_out' = aggregate_to_top_dirs(permuted)
    /\ agg_pc' = "permuted"
    /\ UNCHANGED <<agg_in, agg_out, re_from, aggOthers>>

AggSpecInit == ScanIdle /\ ClsIdle /\ AggInit /\ ParseIdle /\ CallIdle

AggNext == Aggregate \/ Reaggregate

AggSpec == AggSpecInit /\ [][AggNext]_vars

PermNext == Aggregate \/ AggregatePermuted

PermSpec == AggSpecInit /\ [][PermNext]_vars

ParseSpecInit == ScanIdle /\ ClsIdle /\ AggIdle /\ ParseInit /\ CallIdle

ParseNext == ParseCall \/ ParseLine \/ ParseReturn \/ ParseRaise

ParseSpec == ParseSpecInit /\ [][ParseNext]_vars

\* The manifests whose doc types carry `exclude` fields: a head declaring the
\* version and the doc type specs.design, then field lines and a second doc type.
ManifestHead ==
    << KeyLine(0, "version", Scalar("\"", "1.0")),
       KeyLine(0, "specs", NoValue),
       KeyLine(2, "design", NoValue) >>

ExcludeBodyLines ==
    { KeyLine(4, "paths", Flow(<<Scalar("", "docs/design/")>>)),
      KeyLine(4, "exclude", Flow(<<Scalar("", "archived"), Scalar("'", "_template")>>)),
      KeyLine(4, "exclude", NoValue),
      ItemLine(6, Scalar("", "archived")),
      ItemLine(6, Scalar("\"", "deprecated")),
      KeyLine(2, "plan", NoValue) }

ExcludeSpecInit ==
    /\ ScanIdle /\ ClsIdle /\ AggIdle /\ CallIdle
    /\ ps_exists = TRUE
    /\ ps_lines \in { ManifestHead \o body : body \in SeqsUpTo(ExcludeBodyLines, MaxLines) }
    /\ ps_next = 1
    /\ ps_state = [result |-> EmptyDict, order |-> <<>>, category |-> PyNone,
                   doc_type |-> PyNone, field |-> PyNone]
    /\ ps_raised = FALSE
    /\ ps_return = ReturnedNone
    /\ ps_outcome = "running"
    /\ ps_pc = "call"

ExcludeSpec == ExcludeSpecInit /\ [][ParseNext]_vars

(***************************************************************************)
(* Properties of the scanner                                               *)
(***************************************************************************)
NoDuplicates(s) == \A i, j \in 1..Len(s) : i # j => s[i] # s[j]

\* A directory below a name the walk prunes: a name of SKIP_DIRS or a dot name.
Pruned(p) == \E k \in 1..Len(p) : p[k] \in SKIP_DIRS \/ StartsWithDot(p[k])

Visits(d) == Cardinality({ i \in 1..Len(walk_log) : Real(walk_log[i]) = d })

\* C1: shallow stop: no reported directory is a proper ancestor of another
\* reported directory.
C1_ShallowStop ==
    \A i, j \in 1..Len(results) : ~IsProperAncestor(results[i][1], results[j][1])

\* C2: cycle safety: on a tree with links to a directory itself or to an
\* ancestor the scan terminates (every step visits a real directory not visited
\* before, and the loop never blocks before it returns), each real directory the
\* walk does not prune is visited exactly once, and no directory is reported twice.
C2_CycleSafety ==
    /\ NoDuplicates([i \in 1..Len(walk_log) |-> Real(walk_log[i])])
    /\ Len(walk_log) <= Cardinality(fs_dirs)
    /\ NoDuplicates([i \in 1..Len(results) |-> Real(results[i][1])])
    /\ scan_pc = "done" \/ ENABLED Next
    /\ scan_pc = "done" =>
          \A d \in fs_dirs : Visits(d) = (IF Pruned(d) THEN 0 ELSE 1)

C2_Witness ==
    /\ scan_pc = "done"
    /\ Len(results) >= 1
    /\ \E l \in fs_links :
          /\ Len(l.at) >= 2
          /\ Visits(SubSeq(l.at, 1, Len(l.at) - 1)) = 1
          /\ Visits(l.to) = 1

\* C3: every reported path is not the root, has no segment in the skip set or
\* starting with a dot, holds no project-indicator file, holds at least one
\* file whose name ends in '.md', and its count is the number of such files
\* directly inside it.
C3_ReportedPaths ==
    \A i \in 1..Len(results) :
        LET p == results[i][1]
            c == results[i][2]
            here == fs_files[Real(p)]
        IN /\ p # <<>>
           /\ \A k \in 1..Len(p) : p[k] \notin SKIP_DIRS /\ ~StartsWithDot(p[k])
           /\ here \cap SKIP_INDICATORS = {}
           /\ c >= 1
           /\ c = Cardinality({ f \in here : f[Len(f)] = "md" /\ Len(f) >= 2 })

C3_Witness ==
    /\ scan_pc = "done"
    /\ \E i \in 1..Len(results) : results[i][2] = 2
    /\ \E d \in fs_dirs : Pruned(d) /\ MdFiles(d) # {}
    /\ MdFiles(<<>>) # {}

(***************************************************************************)
(* Properties of the classifier                                            *)
(***************************************************************************)
\* C4: classify_directory returns the front-matter result whenever there is
\* one, else the directory-name result whenever there is one, else the
\* term-ranking result; it returns None exactly when all three are None.
C4_StrategyPriority ==
    cls_pc = "done" =>
        LET fm == classify_by_frontmatter(cls_files)
            dn == classify_by_dirname(cls_dir)
            tr == classify_by_terms(cls_files)
        IN /\ fm # None => cls_result = fm
           /\ (fm = None /\ dn # None) => cls_result = dn
           /\ (fm = None /\ dn = None) => cls_result = tr
           /\ cls_result = None <=> (fm = None /\ dn = None /\ tr = None)

C4_Witness ==
    /\ cls_pc = "done"
    /\ classify_by_frontmatter(cls_files) # None
    /\ classify_by_dirname(cls_dir) # None
    /\ classify_by_terms(cls_files) # None
    /\ classify_by_frontmatter(cls_files)[1] # classify_by_dirname(cls_dir)[1]
    /\ classify_by_terms(cls_files)[1] # classify_by_frontmatter(cls_files)[1]
    /\ cls_result = classify_by_frontmatter(cls_files)

(***************************************************************************)
(* Properties of the aggregation                                           *)
(***************************************************************************)
Aggregated == agg_pc \in {"done", "again"}

InDir(i) == agg_in[i][1]
InCategory(i) == agg_in[i][2]
InConfidence(i) == agg_in[i][3]
InReason(i) == agg_in[i][4]
InTop(i) == <<PathParts(InDir(i))[1]>>
InDocType(i) == estimate_doc_type(InDir(i), InCategory(i))

Inputs == 1..Len(agg_in)
Tops == { InTop(i) : i \in Inputs }
Under(top) == { i \in Inputs : InTop(i) = top }

\* The output entries of a category whose path lies under a top-level directory.
OutUnder(category, top) ==
    SelectSeq(agg_out[category], LAMBDA e : <<PathParts(e.dir)[1]>> = top)

\* An entry made by the collapsing branch carries the reason "aggregated from n subdirs".
IsCollapsed(e) == Len(e.reason) = 3

MixedTop(top) == Cardinality({ InCategory(i) : i \in Under(top) }) > 1

\* C5: when one top-level directory hosts directories of two or more doc
\* types, no output entry is the bare top-level path (unless that directory was
\* itself an input) and every member's own path is in the output.
C5_DocTypesNotCollapsed ==
    Aggregated =>
        \A top \in Tops :
            Cardinality({ InDocType(i) : i \in Under(top) }) >= 2 =>
                /\ \A i \in Under(top) :
                      \E k \in 1..Len(agg_out[InCategory(i)]) :
                          agg_out[InCategory(i)][k].dir = WithSlash(InDir(i))
                /\ \A category \in Categories :
                      \A k \in 1..Len(agg_out[category]) :
                          agg_out[category][k].dir = WithSlash(top) =>
                              \E i \in Under(top) : InDir(i) = top

\* C6: under a top-level directory that hosts both categories, every input
\* directory is in the output of its own category with its own path plus '/',
\* its own confidence, reason and doc type; the output holds nothing else for
\* that directory and no collapsed entry.
C6_MixedKeepsPaths ==
    Aggregated =>
        \A top \in Tops :
            MixedTop(top) =>
                /\ \A i \in Under(top) :
                      \E k \in 1..Len(agg_out[InCategory(i)]) :
                          agg_out[InCategory(i)][k] =
                              [dir |-> WithSlash(InDir(i)), confidence |-> InConfidence(i),
                               reason |-> <<InReason(i)>>, doc_type |-> InDocType(i)]
                /\ \A category \in Categories :
                      /\ Len(OutUnder(category, top)) =
                            Cardinality({ i \in Under(top) : InCategory(i) = category })
                      /\ \A k \in 1..Len(OutUnder(category, top)) :
                            ~IsCollapsed(OutUnder(category, top)[k])

C6_Witness ==
    /\ Aggregated
    /\ \E top \in Tops :
          /\ MixedTop(top)
          /\ \E i, j \in Under(top) :
                /\ i # j
                /\ InCategory(i) = InCategory(j)
                /\ InDocType(i) = InDocType(j)
                /\ InConfidence(i) # InConfidence(j)

\* The members of the group (category, top, doc type), and its output entries.
GroupMembers(category, top, doc_type) ==
    { i \in Under(top) : InCategory(i) = category /\ InDocType(i) = doc_type }

GroupOut(category, top, doc_type) ==
    SelectSeq(OutUnder(category, top), LAMBDA e : e.doc_type = doc_type)

\* C7: a group of a top-level directory that is not mixed has exactly one
\* output entry: the top-level path plus '/' when the group has more than one
\* member or its only member is the top-level directory, and else the only
\* member's own path plus '/'.
C7_CollapseRule ==
    Aggregated =>
        \A i \in Inputs :
            ~MixedTop(InTop(i)) =>
                LET members == GroupMembers(InCategory(i), InTop(i), InDocType(i))
                    out == GroupOut(InCategory(i), InTop(i), InDocType(i))
                IN /\ Len(out) = 1
                   /\ out[1].dir =
                         IF Cardinality(members) > 1 \/ InDir(i) = InTop(i)
                         THEN WithSlash(InTop(i))
                         ELSE WithSlash(InDir(i))

C7_Witness ==
    /\ Aggregated
    /\ \E i, j, k \in Inputs :
          /\ ~MixedTop(InTop(i)) /\ ~MixedTop(InTop(k))
          /\ i # j
          /\ j \in GroupMembers(InCategory(i), InTop(i), InDocType(i))
          /\ GroupMembers(InCategory(k), InTop(k), InDocType(k)) = {k}
          /\ InDir(k) # InTop(k)

\* The order low < medium < high.
Rank(c) == CASE c = "low" -> 1 [] c = "medium" -> 2 [] c = "high" -> 3

\* C8: the confidence of a collapsed entry is the greatest of its members'
\* confidences in the order low < medium < high, whatever the order of the
\* input list.
C8_MaxConfidence ==
    Aggregated =>
        \A i \in Inputs :
            LET members == GroupMembers(InCategory(i), InTop(i), InDocType(i))
                out == GroupOut(InCategory(i), InTop(i), InDocType(i))
            IN (~MixedTop(InTop(i)) /\ Cardinality(members) > 1) =>
                   /\ Len(out) = 1
                   /\ \A j \in members : Rank(InConfidence(j)) <= Rank(out[1].confidence)
                   /\ \E j \in members : InConfidence(j) = out[1].confidence

C8_Witness ==
    /\ Aggregated
    /\ \E i, j \in Inputs :
          /\ i < j
          /\ ~MixedTop(InTop(i))
          /\ j \in GroupMembers(InCategory(i), InTop(i), InDocType(i))
          /\ InConfidence(i) = "medium"
          /\ InConfidence(j) = "high"
          /\ GroupOut(InCategory(i), InTop(i), InDocType(i))[1].confidence = "high"

\* C9: a collapsed entry, fed back on its own (its directory path, category
\* and confidence), aggregates to the same entry: same path, doc type and
\* confidence.
C9_Idempotent ==
    (agg_pc = "again" /\ IsCollapsed(re_from.entry) /\ re_from.strip) =>
        /\ Len(re_out[re_from.category]) = 1
        /\ \A category \in Categories \ {re_from.category} : re_out[category] = <<>>
        /\ re_out[re_from.category][1].dir = re_from.entry.dir
        /\ re_out[re_from.category][1].doc_type = re_from.entry.doc_type
        /\ re_out[re_from.category][1].confidence = re_from.entry.confidence

(***************************************************************************)
(* Properties of the manifest parser                                       *)
(***************************************************************************)
\* The file has a top-level `version:` line.
HasVersionKey ==
    \E i \in 1..Len(ps_lines) :
        /\ ps_lines[i].kind = "kv"
        /\ ps_lines[i].indent = 0
        /\ ps_lines[i].key = "version"

\* C10: parse_doc_structure returns None whenever the manifest file is
\* missing, has no version key, or parsing raised; it never returns a
\* structure without a version and never lets the exception reach its caller.
C10_ManifestAbsent ==
    ps_pc = "returned" =>
        /\ ps_outcome = "value"
        /\ (~ps_exists \/ ~HasVersionKey \/ ps_raised) => ps_return.is_none
        /\ ~ps_return.is_none =>
              /\ "version" \in DOMAIN ps_return.value
              /\ ps_return.value["version"] # ""

C10_Witness ==
    /\ ps_pc = "returned"
    /\ ps_exists /\ ~ps_raised /\ ~HasVersionKey
    /\ "specs" \in DOMAIN ps_state.result
    /\ "design" \in DOMAIN ps_state.result["specs"]
    /\ "paths" \in DOMAIN ps_state.result["specs"]["design"]
    /\ ps_return.is_none

\* The doc type a line of the manifest belongs to: the key of the last
\* indent-2 line above it.
DocTypeLines(i) == { j \in 1..(i - 1) : ps_lines[j].kind = "kv" /\ ps_lines[j].indent = 2 }
DocTypeAt(i) == ps_lines[MaxOf(DocTypeLines(i))].key
DocTypesWritten == { ps_lines[j].key : j \in DocTypeLines(Len(ps_lines) + 1) }

\* The `exclude:` field lines written for a doc type.
ExcludeLinesOf(dt) ==
    { i \in 1..Len(ps_lines) :
        /\ ps_lines[i].kind = "kv" /\ ps_lines[i].indent = 4 /\ ps_lines[i].key = "exclude"
        /\ DocTypeLines(i) # {} /\ DocTypeAt(i) = dt }

\* The names listed by the `exclude:` line i: the items of its flow array, or
\* the '- item' lines that follow it.
RECURSIVE BlockItems(_)
BlockItems(i) ==
    IF i <= Len(ps_lines) /\ ps_lines[i].kind = "item" /\ ps_lines[i].indent = 6
    THEN <<ps_lines[i].val.s>> \o BlockItems(i + 1)
    ELSE <<>>

ExcludeWritten(i) ==
    IF ps_lines[i].val.flow
    THEN [k \in 1..Len(ps_lines[i].val.items) |-> ps_lines[i].val.items[k].s]
    ELSE BlockItems(i + 1)

\* C11: a doc type written with an exclude field (flow array or block list)
\* has, in the parsed result, an exclude list equal to the listed names in
\* their written order; a doc type written without one has no exclude key.
C11_ExcludeParsed ==
    (ps_pc = "returned" /\ ~ps_raised /\ ~ps_return.is_none) =>
        \A dt \in DocTypesWritten :
            LET entry == ps_return.value["specs"][dt]
            IN /\ ExcludeLinesOf(dt) = {} => "exclude" \notin DOMAIN entry
               /\ \A i \in ExcludeLinesOf(dt) :
                    Cardinality(ExcludeLinesOf(dt)) = 1 =>
                        /\ "exclude" \in DOMAIN entry
                        /\ entry["exclude"] = ExcludeWritten(i)

(***************************************************************************)
(* The path matching of the resolver                                       *)
(*                                                                         *)
(* A raw path string is the sequence of its '/'-separated pieces, and each *)
(* piece is the sequence of its '\'-separated names: 'specs\login/req.md'  *)
(* is << <<"specs", "login">>, <<"req.md">> >>.  A pattern is the sequence *)
(* of its '/'-separated pieces: 'specs/*/' is <<"specs", "*", "">>.        *)
(***************************************************************************)
MaxSegs == 3      \* '/'-separated pieces of a path or of a pattern

\* file_path.replace('\\', '/').split('/')
RECURSIVE NormalizedParts(_)
NormalizedParts(raw) ==
    IF raw = <<>> THEN <<>> ELSE Head(raw) \o NormalizedParts(Tail(raw))

\* pattern.rstrip('/').split('/'); ''.split('/') is ['']
PatternParts(pattern) ==
    LET stripped == RStripSlash(pattern)
    IN IF stripped = <<>> THEN <<"">> ELSE stripped

\* The loop with '*' compared like any other segment.
RECURSIVE MatchesFromLiteral(_, _, _)
MatchesFromLiteral(path_parts, pattern_parts, i) ==
    IF i > Len(pattern_parts) THEN TRUE
    ELSE IF path_parts[i] # pattern_parts[i] THEN FALSE
    ELSE MatchesFromLiteral(path_parts, pattern_parts, i + 1)

\* for i, p_part in enumerate(pattern_parts): ... from index i on
RECURSIVE MatchesFrom(_, _, _)
MatchesFrom(path_parts, pattern_parts, i) ==
    IF i > Len(pattern_parts) THEN TRUE
    ELSE IF pattern_parts[i] = "*" THEN MatchesFrom(path_parts, pattern_parts, i + 1)
    ELSE IF path_parts[i] # pattern_parts[i] THEN FALSE
    ELSE MatchesFrom(path_parts, pattern_parts, i + 1)

path_matches_pattern(file_path, pattern) ==
    LET pattern_parts == PatternParts(pattern)
        path_parts == NormalizedParts(file_path)
    IN IF Len(path_parts) < Len(pattern_parts) THEN FALSE
       ELSE MatchesFrom(path_parts, pattern_parts, 1)

\* The raw paths and the patterns the matching is called with.
RawPieces == { <<"specs">>, <<"login">>, <<"req.md">>, <<"">>, <<"specs", "login">> }
RawPaths == SeqsUpTo(RawPieces, MaxSegs) \ {<<>>}
PatternPieces == { "specs", "login", "*", "" }
Patterns == SeqsUpTo(PatternPieces, MaxSegs) \ {<<>>}

MatchInit ==
    /\ call_args \in [file_path : RawPaths, pattern : Patterns]
    /\ call_result = <<>>
    /\ call_pc = "call"

PathMatchesPattern ==
    /\ call_pc = "call"
    /\ call_result' = path_matches_pattern(call_args.file_path, call_args.pattern)
    /\ call_pc' = "done"
    /\ UNCHANGED <<call_args, callOthers>>

MatchSpecInit == ScanIdle /\ ClsIdle /\ AggIdle /\ ParseIdle /\ MatchInit

MatchNext == PathMatchesPattern

MatchSpec == MatchSpecInit /\ [][MatchNext]_vars

(***************************************************************************)
(* Properties of the path matching                                         *)
(***************************************************************************)
\* The segments of a path: its names, whichever separator is between them.
PathSegments(raw) == NormalizedParts(raw)

\* The segments of a pattern: its pieces, the trailing '/' aside.
PatternSegments(pattern) == PatternParts(pattern)

\* C12: _path_matches_pattern is true exactly when the path has at least as
\* many segments as the pattern and every non-wildcard pattern segment equals
\* the path segment at the same position; '*' matches any single segment and
\* the path's extra trailing segments are ignored.
C12_PathMatch ==
    call_pc = "done" =>
        LET path == PathSegments(call_args.file_path)
            pat == PatternSegments(call_args.pattern)
        IN call_result =
             /\ Len(path) >= Len(pat)
             /\ \A i \in 1..Len(pat) : pat[i] # "*" => path[i] = pat[i]

C12_Witness ==
    /\ call_pc = "done"
    /\ call_result = TRUE
    /\ call_args.pattern = <<"specs", "*", "">>
    /\ call_args.file_path = << <<"specs", "login">>, <<"req.md">> >>

(***************************************************************************)
(* Type detection of the resolver: detect_type_from_doc_structure and      *)
(* _detect_generic_type, called with the manifest parse_doc_structure      *)
(* returned.  A doc_structure is what parse_doc_structure returned,        *)
(* [is_none, value], with the insertion order of its doc types.  The paths *)
(* and names written in a manifest are sequences of '/'-separated pieces.  *)
(***************************************************************************)
SPECS_REVIEW_TYPE_MAP ==
    [doc_type_name \in {"requirement", "design", "plan"} |-> doc_type_name]

doc_type_to_review_type(category, doc_type_name) ==
    IF category = "specs"
    THEN IF doc_type_name \in DOMAIN SPECS_REVIEW_TYPE_MAP
         THEN SPECS_REVIEW_TYPE_MAP[doc_type_name]
         ELSE "generic"
    ELSE IF category = "rules" THEN "generic"
    ELSE PyNone

\* d.get(k, default)
Get(d, k, default) == IF k \in DOMAIN d THEN d[k] ELSE default

\* doc_structure.get(category, {}).items(), then type_info.get('paths', []):
\* the <<category, doc type, declared path>> in the order the loops meet them.
RECURSIVE DeclaredPaths(_, _, _)
DeclaredPaths(value, order, category) ==
    IF order = <<>> THEN <<>>
    ELSE LET doc_type_name == Head(order)[2]
             rest == DeclaredPaths(value, Tail(order), category)
         IN IF Head(order)[1] # category \/ category \notin DOMAIN value THEN rest
            ELSE LET paths == Get(value[category][doc_type_name], "paths", <<>>)
                 IN [i \in 1..Len(paths) |-> <<category, doc_type_name, paths[i]>>] \o rest

\* not doc_structure
Falsy(doc_structure) == doc_structure.is_none \/ DOMAIN doc_structure.value = {}

\* The first declared path of the list, from index i on, that the path matches.
RECURSIVE FirstMatch(_, _, _)
FirstMatch(normalized, declared, i) ==
    IF i > Len(declared) THEN PyNone
    ELSE IF path_matches_pattern(normalized, declared[i][3])
    THEN doc_type_to_review_type(declared[i][1], declared[i][2])
    ELSE FirstMatch(normalized, declared, i + 1)

\* path_str.replace('\\', '/'), as a raw path without '\'
Normalized(path_str) == [i \in 1..Len(NormalizedParts(path_str)) |-> <<NormalizedParts(path_str)[i]>>]

\* The loops over the categories in the order ('rules', 'specs').
detect_type_rules_first(path_str, doc_structure, order) ==
    IF Falsy(doc_structure) THEN PyNone
    ELSE FirstMatch(Normalized(path_str),
                    DeclaredPaths(doc_structure.value, order, "rules")
                        \o DeclaredPaths(doc_structure.value, order, "specs"), 1)

detect_type_from_doc_structure(path_str, doc_structure, order) ==
    IF Falsy(doc_structure) THEN PyNone
    ELSE FirstMatch(Normalized(path_str),
                    DeclaredPaths(doc_structure.value, order, "specs")
                        \o DeclaredPaths(doc_structure.value, order, "rules"), 1)

GENERIC_BASE_PATTERNS == << <<".claude", "skills", "">>, <<".claude", "commands", "">> >>
GENERIC_ROOT_FILES == {"CLAUDE.md", "README.md"}

\* The names of the model of which another name is a proper prefix.
NamePrefixes ==
    { <<"archived", "archived_v2">>, <<"rules", "rules_old">>, <<".", ".hidden">>,
      <<".", ".notes.md">> }

\* name.startswith(prefix)
NameStartsWith(name, prefix) ==
    prefix = "" \/ name = prefix \/ <<prefix, name>> \in NamePrefixes

\* A piece of a raw path as the text between two '/': its names joined by '\'.
RECURSIVE JoinBackslash(_)
JoinBackslash(piece) ==
    IF Len(piece) = 1 THEN piece[1]
    ELSE piece[1] \o "\\" \o JoinBackslash(Tail(piece))

\* path_str as its '/'-separated pieces, '\' left as it is
Pieces(path_str) == [i \in 1..Len(path_str) |-> JoinBackslash(path_str[i])]

\* The text of pattern is found in s, starting at the piece j of s.
FoundAt(s, pattern, j) ==
    LET k == Len(pattern)
    IN /\ Len(s) >= j + k - 1
       /\ \A i \in 1..(k - 1) : s[j + i - 1] = pattern[i]
       /\ NameStartsWith(s[j + k - 1], pattern[k])

\* path_str.startswith(pattern)
StartsWith(s, pattern) == FoundAt(s, pattern, 1)

\* f'/{pattern}' in path_str
ContainsAfterSlash(s, pattern) == \E j \in 2..Len(s) : FoundAt(s, pattern, j)

\* get_rules_paths(doc_structure) if doc_structure else ['rules/']
get_rules_paths(doc_structure, order) ==
    IF Falsy(doc_structure) THEN << <<"rules", "">> >>
    ELSE LET declared == DeclaredPaths(doc_structure.value, order, "rules")
         IN [i \in 1..Len(declared) |-> declared[i][3]]

\* Path(path_str).name
PathName(s) == IF PathParts(s) = <<>> THEN "" ELSE PathParts(s)[Len(PathParts(s))]

\* all_patterns = GENERIC_BASE_PATTERNS + rules_paths
GenericPatterns(doc_structure, order) ==
    GENERIC_BASE_PATTERNS \o get_rules_paths(doc_structure, order)

detect_generic_type(path_str, doc_structure, order) ==
    LET s == Pieces(path_str)
        all_patterns == GenericPatterns(doc_structure, order)
    IN IF \E i \in 1..Len(all_patterns) :
             StartsWith(s, all_patterns[i]) \/ ContainsAfterSlash(s, all_patterns[i])
       THEN "generic"
       ELSE IF PathName(s) \in GENERIC_ROOT_FILES /\ Len(RStripSlash(s)) <= 1
       THEN "generic"
       ELSE PyNone

(***************************************************************************)
(* The manifests the detection is run with.  A manifest is written as the  *)
(* list of its doc types, [category, doc_type, paths, exclude, style]:     *)
(* style tells whether the doc type has no exclude field ("none"), an      *)
(* inline flow array ("flow") or a block list ("block").                   *)
(***************************************************************************)
DocType(category, doc_type, paths, exclude, style) ==
    [category |-> category, doc_type |-> doc_type, paths |-> paths,
     exclude |-> exclude, style |-> style]

Scalars(values) == [i \in 1..Len(values) |-> Scalar("", values[i])]
Items(values) == [i \in 1..Len(values) |-> ItemLine(6, Scalar("", values[i]))]

DocTypeLinesOf(e) ==
    << KeyLine(2, e.doc_type, NoValue), KeyLine(4, "paths", Flow(Scalars(e.paths))) >>
    \o (IF e.style = "flow" THEN << KeyLine(4, "exclude", Flow(Scalars(e.exclude))) >>
        ELSE IF e.style = "block" THEN << KeyLine(4, "exclude", NoValue) >> \o Items(e.exclude)
        ELSE <<>>)

RECURSIVE CategoryLines(_, _)
CategoryLines(written, category) ==
    IF written = <<>> THEN <<>>
    ELSE (IF Head(written).category = category THEN DocTypeLinesOf(Head(written)) ELSE <<>>)
         \o CategoryLines(Tail(written), category)

WrittenLines(written) ==
    << KeyLine(0, "version", Scalar("\"", "1.0")) >>
    \o << KeyLine(0, "specs", NoValue) >> \o CategoryLines(written, "specs")
    \o << KeyLine(0, "rules", NoValue) >> \o CategoryLines(written, "rules")

P_specs_any_requirements == <<"specs", "*", "requirements", "">>
P_specs == <<"specs", "">>
P_rules == <<"rules", "">>

WrittenManifests ==
    { << DocType("specs", "requirement", <<P_specs_any_requirements>>, se[1], se[2]) >>
      \o design
      \o << DocType("rules", "rule", <<P_rules>>, re[1], re[2]) >> :
        se \in { <<<<>>, "none">>, << <<<<"archived">>>>, "flow">>,
                 << <<<<"archived">>, <<"_template">>>>, "block">> },
        design \in { <<>>, << DocType("specs", "design", <<P_specs>>, <<>>, "none") >> },
        re \in { <<<<>>, "none">>, << <<<<"deprecated">>>>, "flow">> } }

DetectPaths ==
    { << <<"specs">>, <<"login">>, <<"requirements">>, <<"req.md">> >>,
      << <<"specs", "login">>, <<"requirements">>, <<"req.md">> >>,
      << <<"specs">>, <<"archived">>, <<"requirements">>, <<"req.md">> >>,
      << <<"specs">>, <<"archived_v2">>, <<"requirements">>, <<"req.md">> >>,
      << <<"specs">>, <<"login">> >>,
      << <<"rules">>, <<"coding.md">> >>,
      << <<"rules">>, <<"deprecated">>, <<"old_rule.md">> >>,
      << <<"docs">>, <<"rules">>, <<"x.md">> >>,
      << <<"README.md">> >>,
      << <<"docs">>, <<"README.md">> >> }

DetectInit ==
    /\ ps_exists = TRUE
    /\ \E written \in WrittenManifests, path_str \in DetectPaths :
         /\ ps_lines = WrittenLines(written)
         /\ call_args = [written |-> written, path_str |-> path_str]
    /\ ps_next = 1
    /\ ps_state = [result |-> EmptyDict, order |-> <<>>, category |-> PyNone,
                   doc_type |-> PyNone, field |-> PyNone]
    /\ ps_raised = FALSE
    /\ ps_return = ReturnedNone
    /\ ps_outcome = "running"
    /\ ps_pc = "call"
    /\ call_result = <<>>
    /\ call_pc = "call"

\* detect_type_from_doc_structure(path_str, doc_structure), called with what
\* parse_doc_structure returned.
DetectTypeFromDocStructure ==
    /\ ps_pc = "returned"
    /\ call_pc = "call"
    /\ call_result' = [fn |-> "detect_type_from_doc_structure",
                       value |-> detect_type_from_doc_structure(call_args.path_str,
                                                                ps_return, ps_state.order)]
    /\ call_pc' = "done"
    /\ UNCHANGED <<call_args, callOthers>>

\* _detect_generic_type(path_str, doc_structure)
DetectGenericType ==
    /\ ps_pc = "returned"
    /\ call_pc = "call"
    /\ call_result' = [fn |-> "_detect_generic_type",
                       value |-> detect_generic_type(call_args.path_str,
                                                     ps_return, ps_state.order)]
    /\ call_pc' = "done"
    /\ UNCHANGED <<call_args, callOthers>>

DetectSpecInit == ScanIdle /\ ClsIdle /\ AggIdle /\ DetectInit

DetectNext ==
    \/ ParseCall \/ ParseLine \/ ParseReturn \/ ParseRaise
    \/ DetectTypeFromDocStructure
    \/ DetectGenericType

DetectSpec == DetectSpecInit /\ [][DetectNext]_vars

(***************************************************************************)
(* Properties of the type detection                                        *)
(***************************************************************************)
\* The path lies within a path pattern the doc type declares.
MatchesDocType(e, path_str) ==
    \E i \in 1..Len(e.paths) :
        LET path == PathSegments(path_str)
            pat == PatternSegments(e.paths[i])
        IN /\ Len(path) >= Len(pat)
           /\ \A k \in 1..Len(pat) : pat[k] # "*" => path[k] = pat[k]

\* Some segment of the path equals one of the doc type's exclude names.
ExcludedBy(e, path_str) ==
    \E k \in 1..Len(PathSegments(path_str)), i \in 1..Len(e.exclude) :
        e.exclude[i] = <<PathSegments(path_str)[k]>>

ReviewTypeOf(e) ==
    IF e.category = "specs" /\ e.doc_type \in {"requirement", "design", "plan"}
    THEN e.doc_type
    ELSE "generic"

\* The doc types of the manifest in the order the detection considers them.
InDetectionOrder(written) ==
    SelectSeq(written, LAMBDA e : e.category = "specs")
        \o SelectSeq(written, LAMBDA e : e.category = "rules")

\* The doc types that claim the path: it matches and they do not exclude it.
Claiming(written, path_str) ==
    SelectSeq(InDetectionOrder(written),
              LAMBDA e : MatchesDocType(e, path_str) /\ ~ExcludedBy(e, path_str))

\* C13: manifest-based type detection honours segment-exact exclusion: the
\* type detected for a path is the review type of the first doc type whose
\* pattern it matches and whose exclude names none of its segments equals; a
\* doc type that excludes the path yields no type for it, and a segment that
\* only contains an exclude name does not exclude.
C13_ExclusionAwareType ==
    (call_pc = "done" /\ call_result.fn = "detect_type_from_doc_structure" /\ ~ps_raised) =>
        LET claiming == Claiming(call_args.written, call_args.path_str)
        IN call_result.value =
             IF claiming = <<>> THEN PyNone ELSE ReviewTypeOf(claiming[1])

\* C14: the generic-type check against the manifest's rules paths is
\* exclusion-aware: a path under a rules path is 'generic' only if the rules
\* doc type does not exclude one of its segments.
C14_ExclusionAwareGeneric ==
    (call_pc = "done" /\ call_result.fn = "_detect_generic_type" /\ ~ps_raised) =>
        LET rules == SelectSeq(call_args.written,
                               LAMBDA e : e.category = "rules"
                                          /\ MatchesDocType(e, call_args.path_str))
        IN rules # <<>> =>
             ((call_result.value = "generic") =
                (\E i \in 1..Len(rules) : ~ExcludedBy(rules[i], call_args.path_str)))

(***************************************************************************)
(* detect_features_from_doc_structure, called by main with the manifest    *)
(* parse_doc_structure returned.  The project tree is the set of its       *)
(* directories and the set of its files, each a path of names.             *)
(***************************************************************************)
\* The names of the model in the order sorted() puts them.
NameOrder == <<".hidden", "_template", "archived", "auth", "login", "notes.md">>

\* sorted(names), for a set of names
Sorted(names) == SelectSeq(NameOrder, LAMBDA n : n \in names)

\* [i for i, p in enumerate(parts) if p == '*']
StarIndices(parts) == { i \in 1..Len(parts) : parts[i] = "*" }

\* prefix_dir.iterdir(): the entries directly inside the directory
Entries(tree, dir) ==
    { e \in tree.dirs \cup tree.files : Len(e) = Len(dir) + 1 /\ SubSeq(e, 1, Len(dir)) = dir }

\* The entry is kept whatever its name (no `entry.name.startswith('.')` test).
FeatureEntryAny(tree, e) == e \in tree.dirs

\* not (not entry.is_dir() or entry.name.startswith('.'))
FeatureEntry(tree, e) == e \in tree.dirs /\ ~NameStartsWith(e[Len(e)], ".")

\* The features one path pattern contributes.
PatternFeatures(tree, path_pattern) ==
    LET parts == PatternParts(path_pattern)
    IN IF StarIndices(parts) = {} THEN {}
       ELSE LET star_idx == MinOf(StarIndices(parts))
                prefix_dir == PathParts(SubSeq(parts, 1, star_idx - 1))
                suffix_parts == SubSeq(parts, star_idx + 1, Len(parts))
            IN IF prefix_dir \notin tree.dirs THEN {}
               ELSE { e[Len(e)] : e \in { x \in Entries(tree, prefix_dir) :
                          /\ FeatureEntry(tree, x)
                          /\ suffix_parts # <<>> => (x \o PathParts(suffix_parts)) \in tree.dirs } }

detect_features_from_doc_structure(tree, doc_structure, order) ==
    IF Falsy(doc_structure) THEN <<>>
    ELSE LET declared == DeclaredPaths(doc_structure.value, order, "specs")
         IN Sorted(UNION { PatternFeatures(tree, declared[i][3]) : i \in 1..Len(declared) })

(***************************************************************************)
(* main of the resolver: the manifest, the project tree and the targets it *)
(* is run with                                                             *)
(***************************************************************************)
MaxParts == 3     \* parts a project tree is put together from

Tree(dirs, files) == [dirs |-> dirs, files |-> files]

\* The parts of a project tree: directories with the files inside them.
TreeParts ==
    { Tree({<<"specs">>, <<"specs", "login">>, <<"specs", "login", "requirements">>},
           {<<"specs", "login", "requirements", "req.md">>}),
      Tree({<<"specs">>, <<"specs", "login">>, <<"specs", "login", "design">>},
           {<<"specs", "login", "design", "d.md">>}),
      Tree({<<"specs">>, <<"specs", "archived">>, <<"specs", "archived", "requirements">>},
           {<<"specs", "archived", "requirements", "req.md">>}),
      Tree({<<"specs">>, <<"specs", ".hidden">>, <<"specs", ".hidden", "requirements">>}, {}),
      Tree({<<"specs">>, <<"specs", "auth">>}, {}),
      Tree({<<"specs">>}, {<<"specs", "notes.md">>}),
      Tree({}, {<<"login">>}),
      Tree({<<"src">>}, {<<"src", "main.py">>, <<"src", "README.md">>}),
      Tree({<<"rules">>}, {<<"rules", "coding.md">>}) }

\* The tree made of a set of parts; the project root is the empty path.
TreeOf(parts) ==
    Tree({<<>>} \cup UNION { t.dirs : t \in parts }, UNION { t.files : t \in parts })

ProjectTrees == { TreeOf(parts) : parts \in { ps \in SUBSET TreeParts : Cardinality(ps) <= MaxParts } }

P_specs_any_design == <<"specs", "*", "design", "">>
P_specs_any == <<"specs", "*", "">>

ResolveManifests ==
    { << DocType("specs", "requirement", <<P_specs_any_requirements>>, se[1], se[2]) >>
      \o design
      \o << DocType("rules", "rule", <<P_rules>>, <<>>, "none") >> :
        se \in { <<<<>>, "none">>, << <<<<"archived">>>>, "flow">> },
        design \in { <<>>,
                     << DocType("specs", "design", <<P_specs_any_design>>, <<>>, "none") >>,
                     << DocType("specs", "design", <<P_specs_any>>, <<>>, "none") >>,
                     << DocType("specs", "design", <<P_specs>>, <<>>, "none") >> } }

\* The command lines: each target is a path string, as its '/'-separated pieces.
TargetLists ==
    { <<>>,
      << <<"login">> >>,
      << <<"archived">> >>,
      << <<"nosuch">> >>,
      << <<"specs", "login">> >>,
      << <<"src">> >>,
      << <<"specs", "login", "requirements", "req.md">> >>,
      << <<"specs", "notes.md">> >>,
      << <<"specs", "login", "requirements", "req.md">>, <<"rules", "coding.md">> >>,
      << <<"src", "main.py">>, <<"nosuch">> >> }

ResolveInit ==
    /\ ps_exists \in BOOLEAN
    /\ \E written \in ResolveManifests, tree \in ProjectTrees, targets \in TargetLists,
          versioned \in BOOLEAN :
         /\ ps_lines = IF ~ps_exists THEN <<>>
                       ELSE IF versioned THEN WrittenLines(written)
                       ELSE Tail(WrittenLines(written))
         /\ call_args = [written |-> written, tree |-> tree, targets |-> targets]
    /\ ps_next = 1
    /\ ps_state = [result |-> EmptyDict, order |-> <<>>, category |-> PyNone,
                   doc_type |-> PyNone, field |-> PyNone]
    /\ ps_raised = FALSE
    /\ ps_return = ReturnedNone
    /\ ps_outcome = "running"
    /\ ps_pc = "call"
    /\ call_result = <<>>
    /\ call_pc = "call"

\* main, `if not has_doc_structure`: the error output, and main returns.
MainError ==
    /\ ps_pc = "returned"
    /\ call_pc = "call"
    /\ ps_return.is_none
    /\ call_result' = [status |-> "error", has_doc_structure |-> FALSE, type |-> PyNone,
                       target_files |-> <<>>, features |-> <<>>, questions |-> <<>>,
                       error |-> "manifest not found"]
    /\ call_pc' = "done"
    /\ UNCHANGED <<call_args, callOthers>>

\* main: features = detect_features_from_doc_structure(...) and the initial result
MainDetectFeatures ==
    /\ ps_pc = "returned"
    /\ call_pc = "call"
    /\ ~ps_return.is_none
    /\ call_result' = [status |-> "resolved", has_doc_structure |-> TRUE, type |-> PyNone,
                       target_files |-> <<>>,
                       features |-> detect_features_from_doc_structure(
                                        call_args.tree, ps_return, ps_state.order),
                       questions |-> <<>>]
    /\ call_pc' = "resolve"
    /\ UNCHANGED <<call_args, callOthers>>

(***************************************************************************)
(* Properties of the feature detection                                     *)
(***************************************************************************)
\* The names of the sequence, as a set.
Range(seq) == { seq[i] : i \in 1..Len(seq) }

\* main has computed the features of a manifest that was read.
FeaturesDetected == call_pc \in {"resolve", "status", "done"} /\ ~ps_return.is_none

\* The subdirectories directly under the directory.
Subdirs(tree, dir) ==
    { d \in tree.dirs : Len(d) = Len(dir) + 1 /\ SubSeq(d, 1, Len(dir)) = dir }

\* The subdirectory names a doc type's pattern expands its wildcard to: those
\* under the prefix for which the suffix path exists as a directory.
Expansion(tree, pattern) ==
    LET pat == PatternSegments(pattern)
        stars == { i \in 1..Len(pat) : pat[i] = "*" }
    IN IF stars = {} THEN {}
       ELSE LET star == MinOf(stars)
                prefix == SubSeq(pat, 1, star - 1)
                suffix == SubSeq(pat, star + 1, Len(pat))
            IN { d[Len(d)] : d \in { x \in Subdirs(tree, prefix) : (x \o suffix) \in tree.dirs } }

SpecsDocTypes(written) == { written[i] : i \in { k \in 1..Len(written) : written[k].category = "specs" } }

\* C15: a subdirectory whose name equals an exclude entry of the single specs
\* doc type is never among the features, even when the directory and its
\* suffix path exist.
C15_ExcludedNotFeature ==
    FeaturesDetected =>
        \A e \in SpecsDocTypes(call_args.written) :
            Cardinality(SpecsDocTypes(call_args.written)) = 1 =>
                \A i \in 1..Len(e.exclude) :
                    \A n \in Range(call_result.features) : e.exclude[i] # <<n>>

CODE_EXTENSIONS ==
    { ".swift", ".kt", ".java", ".ts", ".tsx", ".js", ".jsx",
      ".py", ".go", ".rs", ".c", ".cpp", ".h", ".m", ".mm" }

\* os.path.splitext(name)[1].lower(), for the names of the model
ExtensionOf(name) ==
    IF name \in {"req.md", "d.md", "notes.md", "coding.md", "README.md", ".notes.md"} THEN ".md"
    ELSE IF name \in {"main.py", "Main.PY", "vendor.py"} THEN ".py"
    ELSE ""

\* The extension as it is spelled in the name, which a glob pattern '*' + ext
\* is compared with.
SuffixOf(name) == IF name = "Main.PY" THEN ".PY" ELSE ExtensionOf(name)

\* A path string without '\' as a raw path
RawOf(path) == [i \in 1..Len(path) |-> <<path[i]>>]

detect_type_manifest_first(path, doc_structure, order) ==
    IF detect_type_from_doc_structure(RawOf(path), doc_structure, order) # PyNone
    THEN detect_type_from_doc_structure(RawOf(path), doc_structure, order)
    ELSE IF ExtensionOf(path[Len(path)]) \in CODE_EXTENSIONS THEN "code"
    ELSE IF detect_generic_type(RawOf(path), doc_structure, order) # PyNone
    THEN detect_generic_type(RawOf(path), doc_structure, order)
    ELSE PyNone

detect_type_from_path(path, doc_structure, order) ==
    IF ExtensionOf(path[Len(path)]) \in CODE_EXTENSIONS THEN "code"
    ELSE IF detect_type_from_doc_structure(RawOf(path), doc_structure, order) # PyNone
    THEN detect_type_from_doc_structure(RawOf(path), doc_structure, order)
    ELSE IF detect_generic_type(RawOf(path), doc_structure, order) # PyNone
    THEN detect_generic_type(RawOf(path), doc_structure, order)
    ELSE PyNone

\* The file paths of the model in the order sorted() puts their strings.
FileOrder ==
    << <<"lib", ".hidden", "main.py">>,
       <<"lib", ".notes.md">>,
       <<"lib", "Main.PY">>,
       <<"lib", "README.md">>,
       <<"lib", "main.py">>,
       <<"lib", "sub", "notes.md">>,
       <<"lib", "vendor.py">>,
       <<"login">>,
       <<"rules", "coding.md">>,
       <<"specs", "archived", "requirements", "req.md">>,
       <<"specs", "login", "design", "d.md">>,
       <<"specs", "login", "requirements", ".notes.md">>,
       <<"specs", "login", "requirements", "req.md">>,
       <<"specs", "notes.md">>,
       <<"src", "README.md">>,
       <<"src", "main.py">> >>

SortedFiles(files) == SelectSeq(FileOrder, LAMBDA f : f \in files)

\* (project_root / path).is_file(), .is_dir()
IsFile(tree, path) == PathParts(path) \in tree.files
IsDir(tree, path) == PathParts(path) \in tree.dirs

\* The files below the directory, at any depth.
Below(tree, dir) == { f \in tree.files : Len(f) > Len(dir) /\ SubSeq(f, 1, Len(dir)) = dir }

\* glob.glob(dir / '**' / ('*' + ext), recursive=True): '**' and '*' do not
\* match names that start with '.'; a directory of such a name is matched too
GlobVisible(tree, dir, exts) ==
    { f \in Below(tree, dir) \cup Below([files |-> tree.dirs], dir) :
        /\ SuffixOf(f[Len(f)]) \in exts
        /\ \A i \in (Len(dir) + 1)..Len(f) : ~NameStartsWith(f[i], ".") }

\* dir.rglob('*.md'): pathlib matches the names that start with '.' too
RGlobMd(tree, dir) == { f \in Below(tree, dir) : ExtensionOf(f[Len(f)]) = ".md" }

detect_type_from_dir_md_first(tree, dir_path, doc_structure, order) ==
    LET dir_p == PathParts(dir_path)
        code_files == GlobVisible(tree, dir_p, CODE_EXTENSIONS)
        md_files == SortedFiles(GlobVisible(tree, dir_p, {".md"}))
    IN IF dir_p \notin tree.dirs THEN <<PyNone, <<>>>>
       ELSE IF md_files # <<>>
       THEN <<detect_type_from_path(md_files[1], doc_structure, order), md_files>>
       ELSE IF code_files # {} THEN <<"code", SortedFiles(code_files)>>
       ELSE <<PyNone, <<>>>>

\* detect_type_from_dir: <<type, files>>
detect_type_from_dir(tree, dir_path, doc_structure, order) ==
    LET dir_p == PathParts(dir_path)
        code_files == GlobVisible(tree, dir_p, CODE_EXTENSIONS)
        md_files == SortedFiles(GlobVisible(tree, dir_p, {".md"}))
    IN IF dir_p \notin tree.dirs THEN <<PyNone, <<>>>>
       ELSE IF code_files # {} THEN <<"code", SortedFiles(code_files)>>
       ELSE IF md_files # <<>>
       THEN <<detect_type_from_path(md_files[1], doc_structure, order), md_files>>
       ELSE <<PyNone, <<>>>>

\* path_pattern.replace('*', feature, 1).rstrip('/'), under the project root
Concrete(path_pattern, feature) ==
    LET parts == PatternParts(path_pattern)
        star_idx == MinOf(StarIndices(parts))
    IN PathParts([i \in 1..Len(parts) |-> IF i = star_idx THEN feature ELSE parts[i]])

\* if review_type not in available: available.append(review_type)
RECURSIVE Unique(_)
Unique(seq) ==
    IF seq = <<>> THEN <<>>
    ELSE LET rest == Unique(SubSeq(seq, 1, Len(seq) - 1))
             last == seq[Len(seq)]
         IN IF \E i \in 1..Len(rest) : rest[i] = last THEN rest ELSE Append(rest, last)

\* The declared specs paths that contain '*', in order.
StarPaths(doc_structure, order) ==
    SelectSeq(DeclaredPaths(doc_structure.value, order, "specs"),
              LAMBDA d : StarIndices(PatternParts(d[3])) # {})

find_feature_subdirs_any_dir(tree, doc_structure, order, feature) ==
    IF Falsy(doc_structure) THEN <<>>
    ELSE LET hits == SelectSeq(StarPaths(doc_structure, order),
                               LAMBDA d : Concrete(d[3], feature) \in tree.dirs)
         IN Unique([i \in 1..Len(hits) |-> doc_type_to_review_type("specs", hits[i][2])])

find_feature_subdirs(tree, doc_structure, order, feature) ==
    IF Falsy(doc_structure) THEN <<>>
    ELSE LET hits == SelectSeq(StarPaths(doc_structure, order),
                               LAMBDA d : /\ Concrete(d[3], feature) \in tree.dirs
                                          /\ RGlobMd(tree, Concrete(d[3], feature)) # {})
         IN Unique([i \in 1..Len(hits) |-> doc_type_to_review_type("specs", hits[i][2])])

find_target_files(tree, doc_structure, order, feature, review_type) ==
    IF Falsy(doc_structure) THEN <<>>
    ELSE LET hits == SelectSeq(StarPaths(doc_structure, order),
                               LAMBDA d : /\ doc_type_to_review_type("specs", d[2]) = review_type
                                          /\ GlobVisible(tree, Concrete(d[3], feature), {".md"}) # {})
         IN IF hits = <<>> THEN <<>>
            ELSE SortedFiles(GlobVisible(tree, Concrete(hits[1][3], feature), {".md"}))

ALL_TYPES == <<"requirement", "design", "plan", "code", "generic">>

\* A question: its key, which message it carries, and its options.
Question(key, message, options) == [key |-> key, message |-> message, options |-> options]

\* _resolve_single_target, `if (project_root / target_path).is_file()`
SingleFile(target, tree, doc_structure, order, result) ==
    LET type == detect_type_from_path(target, doc_structure, order)
    IN [result EXCEPT !.type = type,
                      !.target_files = <<target>>,
                      !.questions = IF type = PyNone
                                    THEN Append(@, Question("type", "type of file unknown", ALL_TYPES))
                                    ELSE @]

\* _resolve_single_target, `elif (project_root / target_path).is_dir()`
SingleDir(target, tree, doc_structure, order, result) ==
    LET detected == detect_type_from_dir(tree, target, doc_structure, order)
    IN [result EXCEPT !.type = detected[1],
                      !.target_files = detected[2],
                      !.questions =
                          IF detected[1] = PyNone /\ detected[2] # <<>>
                          THEN Append(@, Question("type", "type of directory unknown", ALL_TYPES))
                          ELSE IF detected[2] = <<>>
                          THEN Append(@, Question("target", "directory has no files", <<>>))
                          ELSE @]

\* _resolve_single_target, `elif target in features`
SingleFeature(target, tree, doc_structure, order, result) ==
    LET feature == target[1]
        available_types == find_feature_subdirs(tree, doc_structure, order, feature)
    IN IF Len(available_types) = 1
       THEN [result EXCEPT !.type = available_types[1],
                           !.target_files = find_target_files(tree, doc_structure, order,
                                                              feature, available_types[1])]
       ELSE IF Len(available_types) > 1
       THEN [result EXCEPT !.questions =
                 Append(@, Question("type", "type of feature", available_types))]
       ELSE [result EXCEPT !.questions =
                 Append(@, Question("target", "feature has no documents", <<>>))]

\* _resolve_single_target, `else`
SingleNotFound(result) ==
    [result EXCEPT !.questions = Append(@, Question("target", "not found", <<>>))]

\* target in features
InFeatures(target, features) == \E i \in 1..Len(features) : target = <<features[i]>>

\* The branches in the order: feature name, file, directory.
resolve_single_target_feature_first(target, tree, doc_structure, order, features, result) ==
    IF InFeatures(target, features) THEN SingleFeature(target, tree, doc_structure, order, result)
    ELSE IF IsFile(tree, target) THEN SingleFile(target, tree, doc_structure, order, result)
    ELSE IF IsDir(tree, target) THEN SingleDir(target, tree, doc_structure, order, result)
    ELSE SingleNotFound(result)

resolve_single_target(target, tree, doc_structure, order, features, result) ==
    IF IsFile(tree, target) THEN SingleFile(target, tree, doc_structure, order, result)
    ELSE IF IsDir(tree, target) THEN SingleDir(target, tree, doc_structure, order, result)
    ELSE IF InFeatures(target, features) THEN SingleFeature(target, tree, doc_structure, order, result)
    ELSE SingleNotFound(result)

resolve_multiple_targets(targets, tree, doc_structure, order, result) ==
    LET valid_files == SelectSeq(targets, LAMBDA t : IsFile(tree, t))
        missing == SelectSeq(targets, LAMBDA t : ~IsFile(tree, t))
    IN IF missing # <<>>
       THEN [result EXCEPT !.questions = Append(@, Question("target", "files not found", <<>>)),
                           !.target_files = valid_files]
       ELSE LET type == detect_type_from_path(valid_files[1], doc_structure, order)
            IN [result EXCEPT !.target_files = valid_files,
                              !.type = type,
                              !.questions = IF type = PyNone
                                            THEN Append(@, Question("type", "type unknown", ALL_TYPES))
                                            ELSE @]

\* main, `if len(targets) > 1`
ResolveMultipleTargets ==
    /\ call_pc = "resolve"
    /\ Len(call_args.targets) > 1
    /\ call_result' = resolve_multiple_targets(call_args.targets, call_args.tree,
                                               ps_return, ps_state.order, call_result)
    /\ call_pc' = "status"
    /\ UNCHANGED <<call_args, callOthers>>

\* main, `elif len(targets) == 1`
ResolveSingleTarget ==
    /\ call_pc = "resolve"
    /\ Len(call_args.targets) = 1
    /\ call_result' = resolve_single_target(call_args.targets[1], call_args.tree,
                                            ps_return, ps_state.order,
                                            call_result.features, call_result)
    /\ call_pc' = "status"
    /\ UNCHANGED <<call_args, callOthers>>

\* main, `else`: no target given
ResolveNoTarget ==
    /\ call_pc = "resolve"
    /\ Len(call_args.targets) = 0
    /\ call_result' =
         [call_result EXCEPT !.questions =
             IF call_result.features # <<>>
             THEN Append(@, Question("feature", "select a feature", call_result.features))
             ELSE Append(@, Question("target", "give a target", <<>>))]
    /\ call_pc' = "status"
    /\ UNCHANGED <<call_args, callOthers>>

\* The status left at "resolved" whatever the questions.
StatusAlwaysResolved(result) == result

\* if result["questions"]: result["status"] = "needs_input"
StatusOf(result) ==
    IF result.questions # <<>> THEN [result EXCEPT !.status = "needs_input"] ELSE result

\* main: the status and the output
MainStatus ==
    /\ call_pc = "status"
    /\ call_result' = StatusOf(call_result)
    /\ call_pc' = "done"
    /\ UNCHANGED <<call_args, callOthers>>

ResolveSpecInit == ScanIdle /\ ClsIdle /\ AggIdle /\ ResolveInit

ResolveNext ==
    \/ ParseCall \/ ParseLine \/ ParseReturn \/ ParseRaise
    \/ MainError
    \/ MainDetectFeatures
    \/ ResolveMultipleTargets
    \/ ResolveSingleTarget
    \/ ResolveNoTarget
    \/ MainStatus

ResolveSpec == ResolveSpecInit /\ [][ResolveNext]_vars

(***************************************************************************)
(* Properties of the target resolution                                     *)
(***************************************************************************)
\* main has read the manifest and resolved the single target of the command line.
SingleResolved ==
    /\ call_pc \in {"status", "done"}
    /\ ~ps_return.is_none
    /\ Len(call_args.targets) = 1

\* The result main starts the resolution from.
InitialResult ==
    [call_result EXCEPT !.status = "resolved", !.type = PyNone, !.target_files = <<>>,
                        !.questions = <<>>]

TargetIsFile == call_args.targets[1] \in call_args.tree.files
TargetIsDir == call_args.targets[1] \in call_args.tree.dirs
TargetIsFeature == \E n \in Range(call_result.features) : call_args.targets[1] = <<n>>

\* The questions of the result, status aside.
Resolution(result) ==
    [type |-> result.type, target_files |-> result.target_files, questions |-> result.questions]

ManifestAbsent == ~ps_exists \/ ps_raised \/ ~HasVersionKey

\* C18: status is 'error' exactly when the manifest is absent, and then no
\* resolution has run (type null; target_files, features and questions
\* empty) and the error field is populated; otherwise status is 'resolved'
\* exactly when no question was raised, 'needs_input' when one was, and
\* there is no error field.
C18_Status ==
    call_pc = "done" =>
        /\ (call_result.status = "error") = ManifestAbsent
        /\ ManifestAbsent =>
             /\ call_result.type = PyNone
             /\ call_result.target_files = <<>>
             /\ call_result.features = <<>>
             /\ call_result.questions = <<>>
             /\ "error" \in DOMAIN call_result
             /\ call_result.error # ""
        /\ ~ManifestAbsent =>
             /\ call_result.status =
                  IF call_result.questions = <<>> THEN "resolved" ELSE "needs_input"
             /\ "error" \notin DOMAIN call_result

C18_Witness ==
    /\ call_pc = "done"
    /\ ~ManifestAbsent
    /\ call_result.status = "needs_input"
    /\ Len(call_result.questions) = 1
    /\ call_result.target_files # <<>>

(***************************************************************************)
(* The round trip: aggregate_to_top_dirs, output_doc_structure, the parser *)
(* and the resolution of a Markdown file inside a declared path            *)
(***************************************************************************)
\* build_doc_structure for one category: the doc types in the order they are
\* first met, each with its paths.
RECURSIVE DocTypesOf(_)
DocTypesOf(entries) ==
    IF entries = <<>> THEN <<>>
    ELSE LET rest == DocTypesOf(SubSeq(entries, 1, Len(entries) - 1))
             entry == entries[Len(entries)]
         IN IF \E i \in 1..Len(rest) : rest[i].doc_type = entry.doc_type
            THEN [i \in 1..Len(rest) |->
                    IF rest[i].doc_type = entry.doc_type
                    THEN [rest[i] EXCEPT !.paths = Append(@, entry.dir)]
                    ELSE rest[i]]
            ELSE Append(rest, [doc_type |-> entry.doc_type, paths |-> <<entry.dir>>])

build_doc_structure(classification) ==
    [category \in { c \in DOMAIN classification : classification[c] # <<>> } |->
        DocTypesOf(classification[category])]

\* The lines output_doc_structure prints for one doc type.
OutputDocType(info) ==
    IF Len(info.paths) = 1
    THEN << KeyLine(2, info.doc_type, NoValue),
            KeyLine(4, "paths", Flow(Scalars(info.paths))) >>
    ELSE << KeyLine(2, info.doc_type, NoValue), KeyLine(4, "paths", NoValue) >>
         \o Items(info.paths)

RECURSIVE OutputDocTypes(_)
OutputDocTypes(infos) ==
    IF infos = <<>> THEN <<>> ELSE OutputDocType(Head(infos)) \o OutputDocTypes(Tail(infos))

OutputCategory(structure, category) ==
    IF category \notin DOMAIN structure THEN <<>>
    ELSE << BlankLine, KeyLine(0, category, NoValue) >> \o OutputDocTypes(structure[category])

output_doc_structure(classification) ==
    LET structure == build_doc_structure(classification)
    IN << KeyLine(0, "version", Scalar("\"", "1.0")) >>
       \o OutputCategory(structure, "specs")
       \o OutputCategory(structure, "rules")

\* The classified directories of the round trip: every category, one confidence.
RoundTripInputs ==
    { s \in SeqsUpTo(AggPaths \X Categories, MaxInputs) :
        \A i, j \in 1..Len(s) : i # j => s[i][1] # s[j][1] }

RoundTripInit ==
    /\ \E s \in RoundTripInputs :
          agg_in = [i \in 1..Len(s) |-> <<s[i][1], s[i][2], "high", "frontmatter">>]
    /\ agg_out = None
    /\ re_from = None
    /\ re_in = None
    /\ re_out = None
    /\ agg_pc = "call"
    /\ ps_exists = FALSE
    /\ ps_lines = <<>>
    /\ ps_next = 1
    /\ ps_state = [result |-> EmptyDict, order |-> <<>>, category |-> PyNone,
                   doc_type |-> PyNone, field |-> PyNone]
    /\ ps_raised = FALSE
    /\ ps_return = ReturnedNone
    /\ ps_outcome = "running"
    /\ ps_pc = "unwritten"
    /\ call_args = <<>>
    /\ call_result = <<>>
    /\ call_pc = "call"

\* main of classify_dirs, --format doc_structure: the manifest is written
WriteManifest ==
    /\ agg_pc = "done"
    /\ ps_pc = "unwritten"
    /\ ps_lines' = output_doc_structure(agg_out)
    /\ ps_exists' = TRUE
    /\ ps_pc' = "call"
    /\ UNCHANGED <<ps_next, ps_state, ps_raised, ps_return, ps_outcome,
                   scanVars, clsVars, aggVars, callVars>>

\* The resolver is run on a Markdown file inside one of the declared paths.
ResolveDeclaredFile ==
    /\ ps_pc = "returned"
    /\ call_pc = "call"
    /\ ~ps_return.is_none
    /\ \E category \in Categories :
         \E i \in 1..Len(agg_out[category]) :
           LET declared == agg_out[category][i]
               target == RStripSlash(declared.dir) \o <<"notes.md">>
               tree == Tree({ SubSeq(target, 1, k) : k \in 0..(Len(target) - 1) }, {target})
               result == [status |-> "resolved", has_doc_structure |-> TRUE, type |-> PyNone,
                          target_files |-> <<>>,
                          features |-> detect_features_from_doc_structure(
                                           tree, ps_return, ps_state.order),
                          questions |-> <<>>]
           IN /\ call_args' = [category |-> category, declared |-> declared, target |-> target]
              /\ call_result' = StatusOf(resolve_single_target(target, tree, ps_return,
                                                               ps_state.order,
                                                               result.features, result))
    /\ call_pc' = "done"
    /\ UNCHANGED callOthers

RoundTripSpecInit == ScanIdle /\ ClsIdle /\ RoundTripInit

RoundTripNext ==
    \/ Aggregate
    \/ WriteManifest
    \/ ParseCall \/ ParseLine \/ ParseReturn \/ ParseRaise
    \/ ResolveDeclaredFile

RoundTripSpec == RoundTripSpecInit /\ [][RoundTripNext]_vars

\* C19: round trip: a Markdown file inside a path the written manifest
\* declares resolves, through the parsed manifest, to the review type mapped
\* from the doc type the path was declared under, with zero questions.
C19_RoundTrip ==
    (call_pc = "done" /\ agg_pc = "done" /\ ps_pc = "returned" /\ "declared" \in DOMAIN call_args) =>
        /\ call_result.type =
             (IF call_args.category = "specs"
                 /\ call_args.declared.doc_type \in {"requirement", "design", "plan"}
              THEN call_args.declared.doc_type
              ELSE "generic")
        /\ call_result.questions = <<>>
        /\ call_result.status = "resolved"

(***************************************************************************)
(* is_readme_only and the classification loop of main                      *)
(*                                                                         *)
(* A scanned directory is its path parts and the entries directly inside   *)
(* it; an entry has a name, a kind ("file" or "dir") and, when it is a     *)
(* plain file, its content.  A name is the sequence of its '.'-separated   *)
(* pieces, as in the scanner.                                              *)
(***************************************************************************)
MaxEntries == 2    \* entries directly inside a scanned directory

\* f.name.lower(), piece by piece
LowerPiece(x) ==
    CASE x = "README" -> "readme"
      [] x = "ChangeLog" -> "changelog"
      [] x = "MD" -> "md"
      [] OTHER -> x

LowerName(name) == [i \in 1..Len(name) |-> LowerPiece(name[i])]

README_SKIP_NAMES ==
    { <<"readme", "md">>, <<"changelog", "md">>, <<"contributing", "md">>,
      <<"license", "md">>, <<"code_of_conduct", "md">>, <<"security", "md">> }

\* dir_full.glob('*.md'): every entry of that name, plain file or not
GlobMd(entries) == SelectSeq(entries, LAMBDA e : EndsWithMd(e.name))

is_readme_only(entries) ==
    \A i \in 1..Len(GlobMd(entries)) : LowerName(GlobMd(entries)[i].name) \in README_SKIP_NAMES

\* find_md_dirs: the plain files whose name ends with '.md'
MdCount(entries) == Len(SelectSeq(entries, LAMBDA e : e.kind = "file" /\ EndsWithMd(e.name)))

\* open() fails on a directory: no front matter, no terms
Unreadable == [fm |-> NoFrontMatter, text |-> <<>>]

\* What classify_directory reads: the content of every entry glob('*.md') yields.
GlobbedContents(entries) ==
    [i \in 1..Len(GlobMd(entries)) |->
        IF GlobMd(entries)[i].kind = "file" THEN GlobMd(entries)[i].content ELSE Unreadable]

DirEntries ==
    { [name |-> <<"README", "md">>, kind |-> "file",
       content |-> [fm |-> FrontMatter([doc_type |-> "Rule"]), text |-> <<"hello">>]],
      [name |-> <<"readme", "md">>, kind |-> "file",
       content |-> [fm |-> NoFrontMatter, text |-> <<"hello">>]],
      [name |-> <<"ChangeLog", "md">>, kind |-> "file",
       content |-> [fm |-> NoFrontMatter, text |-> <<"must", "shall", "rule", "api", "schema">>]],
      [name |-> <<"guide", "md">>, kind |-> "file",
       content |-> [fm |-> FrontMatter([doc_type |-> "design"]), text |-> <<"hello">>]],
      [name |-> <<"notes", "md">>, kind |-> "dir", content |-> Unreadable],
      [name |-> <<"README", "MD">>, kind |-> "file",
       content |-> [fm |-> NoFrontMatter, text |-> <<"hello">>]] }

ScannedPaths == { <<"docs">>, <<"Rules">> }

\* The directories find_md_dirs reports: at least one plain '*.md' file.
ScannedDirs ==
    { d \in [parts : ScannedPaths, entries : SeqsUpTo(DirEntries, MaxEntries)] :
        /\ \A i, j \in 1..Len(d.entries) : i # j => d.entries[i].name # d.entries[j].name
        /\ MdCount(d.entries) >= 1 }

LoopInit ==
    /\ \E md_dirs \in SeqsUpTo(ScannedDirs, Cardinality(ScannedPaths)) :
          /\ md_dirs # <<>>
          /\ \A i, j \in 1..Len(md_dirs) : i # j => md_dirs[i].parts # md_dirs[j].parts
          /\ call_args = md_dirs
    /\ call_result = [classified |-> <<>>, skip_entries |-> <<>>]
    /\ call_pc = "loop"

\* One iteration of `for dir_path, md_count in md_dirs`
ClassifyLoopStep ==
    /\ call_pc = "loop"
    /\ Len(call_result.classified) + Len(call_result.skip_entries) < Len(call_args)
    /\ LET d == call_args[Len(call_result.classified) + Len(call_result.skip_entries) + 1]
           result == classify_directory(d.parts, GlobbedContents(d.entries))
       IN call_result' =
            IF is_readme_only(d.entries)
            THEN [call_result EXCEPT !.skip_entries =
                    Append(@, [dir |-> WithSlash(d.parts), reason |-> "README/CHANGELOG only"])]
            ELSE IF Truthy(result)
            THEN [call_result EXCEPT !.classified =
                    Append(@, <<d.parts, result[1], result[2], result[3]>>)]
            ELSE [call_result EXCEPT !.skip_entries =
                    Append(@, [dir |-> WithSlash(d.parts),
                               reason |-> <<"unclassifiable", MdCount(d.entries)>>])]
    /\ UNCHANGED <<call_args, call_pc, callOthers>>

\* classification = aggregate_to_top_dirs(classified); classification['skip'] = skip_entries
ClassifyLoopEnd ==
    /\ call_pc = "loop"
    /\ Len(call_result.classified) + Len(call_result.skip_entries) = Len(call_args)
    /\ call_pc' = "done"
    /\ UNCHANGED <<call_args, call_result, callOthers>>

LoopSpecInit == ScanIdle /\ ClsIdle /\ AggIdle /\ ParseIdle /\ LoopInit

LoopNext == ClassifyLoopStep \/ ClassifyLoopEnd

LoopSpec == LoopSpecInit /\ [][LoopNext]_vars

\* The Markdown files of the directory all have one of the skipped names,
\* compared case-insensitively.
ReadmeFilesOnly(d) ==
    \A i \in 1..Len(d.entries) :
        (d.entries[i].kind = "file" /\ EndsWithMd(d.entries[i].name))
            => LowerName(d.entries[i].name) \in README_SKIP_NAMES

SkippedAsReadme(d) ==
    /\ \E i \in 1..Len(call_result.skip_entries) :
          call_result.skip_entries[i] =
              [dir |-> WithSlash(d.parts), reason |-> "README/CHANGELOG only"]
    /\ \A i \in 1..Len(call_result.classified) : call_result.classified[i][1] # d.parts

\* C20: every scanned directory whose Markdown files all have README-like
\* names (case-insensitively) is in the skip list with reason
\* 'README/CHANGELOG only' and is not classified, whatever its path or content.
C20_ReadmeOnlySkipped ==
    call_pc = "done" =>
        \A i \in 1..Len(call_args) : ReadmeFilesOnly(call_args[i]) => SkippedAsReadme(call_args[i])

(***************************************************************************)
(* The classification strategies, each called on its own                   *)
(***************************************************************************)
\* result = classify_by_frontmatter(project_root, dir_path)
ClassifyByFrontmatter ==
    /\ cls_pc = "call"
    /\ cls_result' = classify_by_frontmatter(cls_files)
    /\ cls_pc' = "frontmatter"
    /\ UNCHANGED <<cls_dir, cls_files, clsOthers>>

\* result = classify_by_terms(project_root, dir_path)
ClassifyByTerms ==
    /\ cls_pc = "call"
    /\ cls_result' = classify_by_terms(cls_files)
    /\ cls_pc' = "terms"
    /\ UNCHANGED <<cls_dir, cls_files, clsOthers>>

\* The strategies read the files of the directory, not its name.
StrategyFiles ==
    { f \in MdFileContents : f.text = <<"hello">> \/ f.fm \in {NoFrontMatter, FrontMatter([doc_type |-> "Rule"])} }

StrategyInit ==
    /\ cls_dir = <<"docs">>
    /\ cls_files \in SeqsUpTo(StrategyFiles, MaxFiles)
    /\ cls_result = None
    /\ cls_pc = "call"

StrategySpecInit == ScanIdle /\ StrategyInit /\ AggIdle /\ ParseIdle /\ CallIdle

StrategyNext == ClassifyByFrontmatter \/ ClassifyByTerms

StrategySpec == StrategySpecInit /\ [][StrategyNext]_vars

\* The doc_type a file declares in its front matter, lower-cased ("" if none).
Declared(f) ==
    IF f.fm.present /\ "doc_type" \in DOMAIN f.fm.dict THEN Lower(f.fm.dict.doc_type) ELSE ""

RECURSIVE Declaring(_, _)
Declaring(files, types) ==
    IF files = <<>> THEN 0
    ELSE (IF Declared(Head(files)) \in types THEN 1 ELSE 0) + Declaring(Tail(files), types)

RulesSide == {"rule", "rules", "guideline", "standard", "workflow"}
SpecsSide == {"requirement", "requirements", "design", "plan", "specification", "spec", "specs"}

\* C21: classify_by_frontmatter returns 'rules' exactly when strictly more
\* files declare a rules-side doc_type than a specs-side one, 'specs' in the
\* symmetric case, and no result when the two counts are equal.
C21_FrontmatterMajority ==
    cls_pc = "frontmatter" =>
        LET r == Declaring(cls_files, RulesSide)
            s == Declaring(cls_files, SpecsSide)
        IN /\ (cls_result # None /\ cls_result[1] = "rules") <=> r > s
           /\ (cls_result # None /\ cls_result[1] = "specs") <=> s > r
           /\ cls_result = None <=> r = s

\* a tie between one rules-side and one specs-side file gives no result
C21_Witness ==
    /\ cls_pc = "frontmatter"
    /\ Declaring(cls_files, RulesSide) = 1
    /\ Declaring(cls_files, SpecsSide) = 1
    /\ cls_result = None

\* The files whose front matter carries a doc_type key, whatever its value.
HasDocType(f) == f.fm.present /\ "doc_type" \in DOMAIN f.fm.dict

Recognized(f) == Declared(f) \in RulesSide \cup SpecsSide

Category(result) == IF result = None THEN "" ELSE result[1]
Confidence(result) == IF result = None THEN "" ELSE result[2]

\* The count of the side that did not win.
LosingCount(files, result) ==
    IF Category(result) = "rules" THEN Declaring(files, SpecsSide)
    ELSE Declaring(files, RulesSide)

SameVerdict(files, g) ==
    LET again == classify_by_frontmatter(Append(files, g))
    IN Category(again) = Category(cls_result) /\ Confidence(again) = Confidence(cls_result)

\* C22 as stated: the confidence is high exactly when every file of the
\* tally declared the winning side, and a file without front matter or with
\* an unrecognized doc_type, being outside the tally, changes neither the
\* category nor the confidence when it is added.
C22_TallyExcludesUnrecognized ==
    (cls_pc = "frontmatter" /\ cls_result # None) =>
        /\ Confidence(cls_result) = "high" <=> LosingCount(cls_files, cls_result) = 0
        /\ \A g \in StrategyFiles : ~Recognized(g) => SameVerdict(cls_files, g)

\* C22, amended: the confidence is high exactly when every file that
\* declares a doc_type declares one of the winning side; adding a file that
\* declares no doc_type changes neither the category nor the confidence;
\* adding a file that declares an unrecognized doc_type keeps the category
\* and makes the confidence medium.
C22_ConfidenceOverDeclaring ==
    (cls_pc = "frontmatter" /\ cls_result # None) =>
        /\ Confidence(cls_result) = "high" <=>
               \A i \in 1..Len(cls_files) :
                   HasDocType(cls_files[i]) =>
                       Declared(cls_files[i]) \in
                           (IF Category(cls_result) = "rules" THEN RulesSide ELSE SpecsSide)
        /\ \A g \in StrategyFiles :
               /\ ~HasDocType(g) => SameVerdict(cls_files, g)
               /\ (HasDocType(g) /\ ~Recognized(g)) =>
                      LET again == classify_by_frontmatter(Append(cls_files, g))
                      IN Category(again) = Category(cls_result) /\ Confidence(again) = "medium"

\* medium confidence although no file declares the other side
C22_Witness ==
    /\ cls_pc = "frontmatter"
    /\ cls_result # None
    /\ Confidence(cls_result) = "medium"
    /\ LosingCount(cls_files, cls_result) = 0

\* C23: classify_by_terms returns a result exactly when the combined score
\* is positive and the higher side's share is at least 3/5; the category is
\* the side with the strictly higher total, the confidence is high when the
\* share is at least 3/4 and medium otherwise; equal totals give no result.
C23_TermThresholds ==
    cls_pc = "terms" =>
        LET rule == SumScores(cls_files, 1)
            spec == SumScores(cls_files, 2)
            total == rule + spec
            higher == IF rule >= spec THEN rule ELSE spec
        IN /\ cls_result # None <=> (total > 0 /\ 5 * higher >= 3 * total)
           /\ cls_result # None =>
                 /\ cls_result[1] = (IF rule > spec THEN "rules" ELSE "specs")
                 /\ rule # spec
                 /\ cls_result[2] = (IF 4 * higher >= 3 * total THEN "high" ELSE "medium")
           /\ rule = spec => cls_result = None

\* a share of exactly 3/5 gives a result of medium confidence
C23_Witness ==
    /\ cls_pc = "terms"
    /\ cls_result # None
    /\ cls_result[2] = "medium"
    /\ LET rule == SumScores(cls_files, 1)
           spec == SumScores(cls_files, 2)
       IN 5 * (IF rule >= spec THEN rule ELSE spec) = 3 * (rule + spec)

(***************************************************************************)
(* detect_type_from_path on its own                                        *)
(***************************************************************************)
P_specs_any_plan == <<"specs", "*", "plan", "">>
P_specs_any_api == <<"specs", "*", "api", "">>

PathTypeManifests ==
    { << DocType("specs", "requirement", <<P_specs_any_requirements>>, se[1], se[2]) >>
      \o plan \o api
      \o << DocType("rules", "rule", <<P_rules>>, <<>>, "none") >> :
        se \in { <<<<>>, "none">>, << <<<<"archived">>>>, "flow">> },
        plan \in { <<>>, << DocType("specs", "plan", <<P_specs_any_plan>>, <<>>, "none") >> },
        api \in { <<>>, << DocType("specs", "api", <<P_specs_any_api>>, <<>>, "none") >> } }

PathTypePaths ==
    { <<"specs", "login", "requirements", "req.md">>,
      <<"specs", "login", "requirements", "main.py">>,
      <<"specs", "archived", "requirements", "req.md">>,
      <<"specs", "login", "plan", "notes.md">>,
      <<"specs", "login", "api", "d.md">>,
      <<"rules", "coding.md">>,
      <<"docs", "rules", "coding.md">>,
      <<".claude", "skills", "notes.md">>,
      <<"README.md">>,
      <<"docs", "README.md">>,
      <<"docs", "notes.md">>,
      <<"main.py">> }

PathTypeInit ==
    /\ ps_exists = TRUE
    /\ \E written \in PathTypeManifests, path \in PathTypePaths :
         /\ ps_lines = WrittenLines(written)
         /\ call_args = [written |-> written, path |-> path, path_str |-> RawOf(path)]
    /\ ps_next = 1
    /\ ps_state = [result |-> EmptyDict, order |-> <<>>, category |-> PyNone,
                   doc_type |-> PyNone, field |-> PyNone]
    /\ ps_raised = FALSE
    /\ ps_return = ReturnedNone
    /\ ps_outcome = "running"
    /\ ps_pc = "call"
    /\ call_result = <<>>
    /\ call_pc = "call"

\* detect_type_from_path(path_str, doc_structure, project_root)
DetectTypeFromPath ==
    /\ ps_pc = "returned"
    /\ call_pc = "call"
    /\ call_result' = [fn |-> "detect_type_from_path",
                       value |-> detect_type_from_path(call_args.path, ps_return,
                                                       ps_state.order)]
    /\ call_pc' = "done"
    /\ UNCHANGED <<call_args, callOthers>>

PathTypeSpecInit == ScanIdle /\ ClsIdle /\ AggIdle /\ PathTypeInit

PathTypeNext ==
    \/ ParseCall \/ ParseLine \/ ParseReturn \/ ParseRaise
    \/ DetectTypeFromPath

PathTypeSpec == PathTypeSpecInit /\ [][PathTypeNext]_vars

\* The file name ends with a source-code extension.
IsCodePath(path) == path[Len(path)] \in {"main.py"}

\* The doc types of the manifest whose pattern the path matches, in the
\* order the detection considers them.
Matching(written, path_str) ==
    SelectSeq(InDetectionOrder(written), LAMBDA e : MatchesDocType(e, path_str))

\* The directory (a pattern without '*') appears in the path, at its start
\* or after a '/'.
InDirectory(path, dir) ==
    LET d == PatternSegments(dir)
    IN \E j \in 1..Len(path) :
          /\ Len(path) >= j + Len(d)
          /\ \A k \in 1..Len(d) : path[j + k - 1] = d[k]

UnderGenericBase(path) ==
    InDirectory(path, <<".claude", "skills", "">>) \/ InDirectory(path, <<".claude", "commands", "">>)

UnderRulesPath(written, path) ==
    \E i \in 1..Len(written) :
        /\ written[i].category = "rules"
        /\ \E k \in 1..Len(written[i].paths) : InDirectory(path, written[i].paths[k])

IsRootFile(path) == Len(path) = 1 /\ path[1] \in {"CLAUDE.md", "README.md"}

PathTypeDone ==
    call_pc = "done" /\ call_result.fn = "detect_type_from_path" /\ ~ps_raised

DirTreeParts ==
    { Tree({<<"lib">>}, {<<"lib", "main.py">>}),
      Tree({<<"lib">>}, {<<"lib", "README.md">>}),
      Tree({<<"lib">>, <<"lib", ".hidden">>}, {<<"lib", ".hidden", "main.py">>}),
      Tree({<<"lib">>}, {<<"lib", ".notes.md">>}),
      Tree({<<"lib">>}, {<<"lib", "Main.PY">>}),
      Tree({<<"lib">>, <<"lib", "vendor.py">>}, {}),
      Tree({<<"lib">>, <<"lib", "sub">>}, {<<"lib", "sub", "notes.md">>}),
      Tree({<<"specs">>, <<"specs", "login">>, <<"specs", "login", "requirements">>},
           {<<"specs", "login", "requirements", "req.md">>}),
      Tree({<<"specs">>, <<"specs", "login">>, <<"specs", "login", "design">>},
           {<<"specs", "login", "design", "d.md">>}) }

DirTrees == { TreeOf(parts) : parts \in { ps \in SUBSET DirTreeParts : Cardinality(ps) <= MaxParts } }

DirTargets == { <<"lib">>, <<"specs", "login">>, <<"specs", "login", "">> }

DirManifests ==
    { << DocType("specs", "requirement", <<P_specs_any_requirements>>, <<>>, "none") >>
      \o design
      \o << DocType("rules", "rule", <<P_rules>>, <<>>, "none") >> :
        design \in { <<>>, << DocType("specs", "design", <<P_specs_any_design>>, <<>>, "none") >> } }

DirInit ==
    /\ ps_exists = TRUE
    /\ \E written \in DirManifests, tree \in DirTrees, dir_path \in DirTargets :
         /\ ps_lines = WrittenLines(written)
         /\ call_args = [written |-> written, tree |-> tree, dir_path |-> dir_path]
    /\ ps_next = 1
    /\ ps_state = [result |-> EmptyDict, order |-> <<>>, category |-> PyNone,
                   doc_type |-> PyNone, field |-> PyNone]
    /\ ps_raised = FALSE
    /\ ps_return = ReturnedNone
    /\ ps_outcome = "running"
    /\ ps_pc = "call"
    /\ call_result = <<>>
    /\ call_pc = "call"

\* detect_type_from_dir(dir_path, doc_structure, project_root)
DetectTypeFromDir ==
    /\ ps_pc = "returned"
    /\ call_pc = "call"
    /\ call_result' = [fn |-> "detect_type_from_dir",
                       value |-> detect_type_from_dir(call_args.tree, call_args.dir_path,
                                                      ps_return, ps_state.order)]
    /\ call_pc' = "done"
    /\ UNCHANGED <<call_args, callOthers>>

DirSpecInit == ScanIdle /\ ClsIdle /\ AggIdle /\ DirInit

DirNext ==
    \/ ParseCall \/ ParseLine \/ ParseReturn \/ ParseRaise
    \/ DetectTypeFromDir

DirSpec == DirSpecInit /\ [][DirNext]_vars

DirDone == call_pc = "done" /\ call_result.fn = "detect_type_from_dir"

\* The directory named by the target, and whether it exists.
TargetDir == SelectSeq(call_args.dir_path, LAMBDA x : x # "")
TargetDirExists == TargetDir \in call_args.tree.dirs

\* a \prec b in the order of sorted()
SortsBefore(a, b) ==
    \E i, j \in 1..Len(FileOrder) : i < j /\ FileOrder[i] = a /\ FileOrder[j] = b

\* files is the set S in sorted order
IsSortedListOf(files, S) ==
    /\ { files[i] : i \in 1..Len(files) } = S
    /\ \A i \in 1..(Len(files) - 1) : SortsBefore(files[i], files[i + 1])

FirstOf(S) == CHOOSE f \in S : \A g \in S \ {f} : SortsBefore(f, g)

\* What the claim says of the code files and the Markdown files of the directory.
DirResolution(code, md) ==
    LET type == call_result.value[1]
        files == call_result.value[2]
    IN IF ~TargetDirExists \/ (code = {} /\ md = {}) THEN type = PyNone /\ files = <<>>
       ELSE IF code # {} THEN type = "code" /\ IsSortedListOf(files, code)
       ELSE /\ type = detect_type_from_path(FirstOf(md), ps_return, ps_state.order)
            /\ IsSortedListOf(files, md)

\* The files anywhere below the target directory whose extension, compared
\* lower-cased, is one of exts.
FilesWithin(exts) ==
    { f \in call_args.tree.files :
        /\ Len(f) > Len(TargetDir)
        /\ SubSeq(f, 1, Len(TargetDir)) = TargetDir
        /\ ExtensionOf(f[Len(f)]) \in exts }

\* The entries (files and directories) below the target directory that are
\* reached through names not starting with '.' and whose name ends with one
\* of exts as spelled.
EntriesFound(exts) ==
    { f \in call_args.tree.files \cup call_args.tree.dirs :
        /\ Len(f) > Len(TargetDir)
        /\ SubSeq(f, 1, Len(TargetDir)) = TargetDir
        /\ SuffixOf(f[Len(f)]) \in exts
        /\ \A i \in (Len(TargetDir) + 1)..Len(f) : ~NameStartsWith(f[i], ".") }

FeatureTreeParts ==
    { Tree({<<"specs">>, <<"specs", "login">>, <<"specs", "login", "requirements">>},
           {<<"specs", "login", "requirements", "req.md">>}),
      Tree({<<"specs">>, <<"specs", "login">>, <<"specs", "login", "design">>},
           {<<"specs", "login", "design", "d.md">>}),
      Tree({<<"specs">>, <<"specs", "login">>, <<"specs", "login", "requirements">>}, {}),
      Tree({<<"specs">>, <<"specs", "login">>, <<"specs", "login", "requirements">>},
           {<<"specs", "login", "requirements", ".notes.md">>}),
      Tree({<<"specs">>, <<"specs", "login">>, <<"specs", "login", "design">>}, {}),
      Tree({<<"rules">>}, {<<"rules", "coding.md">>}) }

FeatureTrees ==
    { TreeOf(parts) : parts \in { ps \in SUBSET FeatureTreeParts : Cardinality(ps) <= MaxParts } }

FeatureTargetLists ==
    { <<>>,
      << <<"login">> >>,
      << <<"nosuch">> >>,
      << <<"specs", "login">> >>,
      << <<"specs", "login", "requirements">> >>,
      << <<"specs", "login", "requirements", "req.md">> >>,
      << <<"specs", "login", "requirements", "req.md">>, <<"rules", "coding.md">> >> }

FeatureInit ==
    /\ ps_exists = TRUE
    /\ \E written \in ResolveManifests, tree \in FeatureTrees, targets \in FeatureTargetLists :
         /\ ps_lines = WrittenLines(written)
         /\ call_args = [written |-> written, tree |-> tree, targets |-> targets]
    /\ ps_next = 1
    /\ ps_state = [result |-> EmptyDict, order |-> <<>>, category |-> PyNone,
                   doc_type |-> PyNone, field |-> PyNone]
    /\ ps_raised = FALSE
    /\ ps_return = ReturnedNone
    /\ ps_outcome = "running"
    /\ ps_pc = "call"
    /\ call_result = <<>>
    /\ call_pc = "call"

FeatureSpecInit == ScanIdle /\ ClsIdle /\ AggIdle /\ FeatureInit

FeatureSpec == FeatureSpecInit /\ [][ResolveNext]_vars

\* The single target was resolved as the name of a known feature.
FeatureResolved ==
    /\ call_pc = "done"
    /\ ~ps_return.is_none
    /\ Len(call_args.targets) = 1
    /\ ~TargetIsFile
    /\ ~TargetIsDir
    /\ TargetIsFeature

\* The directory a specs pattern with '*' names for the feature.
SubdirFor(pattern, feature) ==
    LET seg == PatternSegments(pattern)
        star == CHOOSE i \in 1..Len(seg) : seg[i] = "*" /\ \A k \in 1..(i - 1) : seg[k] # "*"
    IN [i \in 1..Len(seg) |-> IF i = star THEN feature ELSE seg[i]]

HasStar(pattern) == \E i \in 1..Len(PatternSegments(pattern)) : PatternSegments(pattern)[i] = "*"

\* The Markdown files below a directory, at any depth.
MarkdownBelow(dir) ==
    { f \in call_args.tree.files :
        /\ Len(f) > Len(dir)
        /\ SubSeq(f, 1, Len(dir)) = dir
        /\ ExtensionOf(f[Len(f)]) = ".md" }

\* The feature subdirectories of the review type that satisfy Has.
SubdirsOfType(type, Has(_)) ==
    LET docTypes == { e \in Range(call_args.written) :
                        e.category = "specs" /\ ReviewTypeOf(e) = type }
        named == UNION { { SubdirFor(e.paths[k], call_args.targets[1][1]) :
                             k \in { j \in 1..Len(e.paths) : HasStar(e.paths[j]) } } :
                         e \in docTypes }
    IN { d \in named : d \in call_args.tree.dirs /\ Has(d) }

IsThere(dir) == TRUE
HoldsMarkdown(dir) == MarkdownBelow(dir) # {}

ReviewTypes == {"requirement", "design", "plan", "generic"}

\* What the claim says, given the review types discovered for the feature
\* and the files of a review type.
FeatureOutcome(discovered, FilesOf(_)) ==
    IF Cardinality(discovered) = 1
    THEN /\ call_result.type \in discovered
         /\ Range(call_result.target_files) = FilesOf(call_result.type)
         /\ call_result.questions = <<>>
    ELSE /\ Len(call_result.questions) = 1
         /\ call_result.type = PyNone
         /\ IF discovered = {}
            THEN call_result.questions[1].key = "target"
            ELSE /\ call_result.questions[1].key = "type"
                 /\ Range(call_result.questions[1].options) = discovered
                 /\ Len(call_result.questions[1].options) = Cardinality(discovered)

AllMarkdownOf(type) == UNION { MarkdownBelow(d) : d \in SubdirsOfType(type, IsThere) }

VisibleMarkdownOf(type) ==
    UNION { { f \in MarkdownBelow(d) :
                \A i \in (Len(d) + 1)..Len(f) : ~NameStartsWith(f[i], ".") } :
            d \in SubdirsOfType(type, HoldsMarkdown) }

C27_ResolvedComplete ==
    (call_pc = "done" /\ call_result.status = "resolved") =>
        /\ call_result.type # PyNone
        /\ call_result.target_files # <<>>

\* An indent-0 key line of the manifest.
IsTopKeyLine(line) == line.kind = "kv" /\ line.indent = 0

\* The doc type was written at indent 2 under a line `category:` with no
\* other indent-0 key line in between, among the lines read so far.
WrittenUnder(category, doc_type_name) ==
    \E i, j \in 1..(ps_next - 1) :
        /\ i < j
        /\ IsTopKeyLine(ps_lines[i])
        /\ ps_lines[i].key = category
        /\ ps_lines[j].kind = "kv"
        /\ ps_lines[j].indent = 2
        /\ ps_lines[j].key = doc_type_name
        /\ \A k \in (i + 1)..(j - 1) : ~IsTopKeyLine(ps_lines[k])

\* C28: every doc type of the parsed specs (rules) map was written under a
\* 'specs:' ('rules:') line with no other indent-0 key line in between.
C28_DocTypesUnderCategory ==
    \A category \in {"specs", "rules"} :
        category \in DOMAIN ps_state.result =>
            \A doc_type_name \in DOMAIN ps_state.result[category] :
                WrittenUnder(category, doc_type_name)

(***************************************************************************)
(* Properties of the aggregation as a whole                                *)
(***************************************************************************)
OutEntries(out, category) == { out[category][k] : k \in 1..Len(out[category]) }

\* C29: every input directory is equal to or lies beneath the path of an
\* output entry of its category; every output path is an input path or the
\* top-level segment of an input path of that category; and the output has
\* no more entries than the input.
C29_LosesAndInventsNothing ==
    Aggregated =>
        /\ \A i \in Inputs :
              \E e \in OutEntries(agg_out, InCategory(i)) :
                  IsPrefix(RStripSlash(e.dir), InDir(i))
        /\ \A category \in Categories :
              \A e \in OutEntries(agg_out, category) :
                  \E i \in Inputs :
                      /\ InCategory(i) = category
                      /\ e.dir \in {WithSlash(InDir(i)), WithSlash(InTop(i))}
        /\ Len(agg_out.rules) + Len(agg_out.specs) <= Len(agg_in)

\* A group is collapsed into a top-level directory that was not an input, so
\* the output has fewer entries than the input.
C29_Witness ==
    /\ agg_pc = "done"
    /\ Len(agg_out.rules) + Len(agg_out.specs) < Len(agg_in)
    /\ \E category \in Categories :
          \E e \in OutEntries(agg_out, category) :
              /\ IsCollapsed(e)
              /\ \A i \in Inputs : WithSlash(InDir(i)) # e.dir

\* The (category, path, doc type, confidence) entries of an output.
EntrySet(out) ==
    UNION { { <<category, e.dir, e.doc_type, e.confidence>> : e \in OutEntries(out, category) } :
            category \in Categories }

\* C30: the set of (category, path, doc type, confidence) entries is the same
\* for every permutation of the input list.
C30_OrderIndependent ==
    agg_pc = "permuted" => EntrySet(re_out) = EntrySet(agg_out)

\* The permuted list starts with another member of a collapsed group, of
\* another confidence, and the two outputs differ in their reason texts.
C30_Witness ==
    /\ agg_pc = "permuted"
    /\ Len(agg_in) >= 2
    /\ GroupKey(Enrich(re_in[1])) = GroupKey(Enrich(agg_in[1]))
    /\ re_in[1][3] # agg_in[1][3]
    /\ \E e \in OutEntries(agg_out, agg_in[1][2]) :
          IsCollapsed(e) /\ e.doc_type = InDocType(1) /\ e.reason[3] = agg_in[1][4]
    /\ re_out # agg_out

====
